---- MODULE Spec2Model ----
(***************************************************************************)
(* A model of the pull-request review agent: the regex-based analyzers     *)
(* (architecture, code style, security), the pydantic records they build,  *)
(* and the review orchestration of PRReviewerAgent.review_pr.              *)
(*                                                                         *)
(* Texts are sequences of one-character strings.  Regular expressions are  *)
(* abstract syntax trees matched by a backtracking matcher that lists the  *)
(* possible matches in the order Python's re module tries them.            *)
(***************************************************************************)
EXTENDS Integers, Sequences, FiniteSets, TLC

VARIABLES
    file_path,         \* the file path handed to a check
    content,           \* the file text handed to a check
    rule,              \* the architecture rule handed to _check_rule
    coding_standards,  \* config.rules.coding_standards (the two thresholds)
    out,               \* what the check returned or raised ([op |-> "none"] before the call)
    pr_context,        \* the PRContext handed to review_pr
    pc,                \* the statement review_pr stands at
    mcp,               \* outcome of mcp_client.analyze_pull_request (its value is mcp_issues)
    tasks,             \* the three analyzer tasks started by asyncio.gather
    gather_exc,        \* the first exception raised by a task of the gather
    local_results,     \* what the gather returned
    all_issues,        \* mcp_issues + the flattened local results
    summary,           \* what _generate_summary returned
    review_out,        \* what review_pr returned or raised
    runs,              \* per analyzer, what each analyze call over pr_context returned or raised
    result_kwargs,     \* the keyword arguments review_pr evaluated for ReviewResult(...)
    http,              \* the statuses GitHub answers the PR request and the files request with
    files_data,        \* the file entries GitHub lists for the PR
    ctx_out,           \* what a PR-context provider returned or raised
    yaml_config,       \* the settings file load_config finds
    config_out,        \* what load_config returned or raised
    severities,        \* a list of IssueSeverity members
    cmp_out,           \* what comparing or sorting the members gave
    concurrent_reviews, \* config.concurrent_reviews
    webhook_secret,    \* the two secret fields of the configuration
    running,           \* agent.running
    monitor,           \* the _monitor_prs task: where it stands, the PRs of this cycle and how
                       \* many are left, what happened to each, how the poll ended, the last sleep
    in_progress,       \* the number of PRs being processed
    stats,             \* agent.stats
    completed,         \* the reviews that completed and were posted, and their issues
    status_out,        \* the last answer of get_status
    webhook_out,       \* the last answer of github_webhook
    pending_out,       \* the last call of get_pending_reviews: its arguments, the answers, its result
    loops              \* the _monitor_prs tasks that start() created, in creation order

scanVars == <<file_path, content, rule, coding_standards, out>>

reviewVars == <<pr_context, pc, mcp, tasks, gather_exc, local_results, all_issues,
                summary, review_out>>

rerunVars == <<runs>>

contextVars == <<http, files_data, ctx_out>>

\* the variables outside review_pr and the checks
configVars == <<yaml_config, config_out>>

severityVars == <<severities, cmp_out>>

agentVars == <<concurrent_reviews, webhook_secret, running, monitor, in_progress, stats,
               completed, status_out, webhook_out>>

pendingVars == <<pending_out>>

loopVars == <<loops>>

farVars == <<rerunVars, contextVars, configVars, severityVars, agentVars, pendingVars, loopVars>>

\* farVars without the group named
exceptRerun == <<contextVars, configVars, severityVars, agentVars, pendingVars, loopVars>>
exceptContext == <<rerunVars, configVars, severityVars, agentVars, pendingVars, loopVars>>
exceptConfig == <<rerunVars, contextVars, severityVars, agentVars, pendingVars, loopVars>>
exceptSeverity == <<rerunVars, contextVars, configVars, agentVars, pendingVars, loopVars>>
exceptAgent == <<rerunVars, contextVars, configVars, severityVars, pendingVars, loopVars>>
exceptPending == <<rerunVars, contextVars, configVars, severityVars, agentVars, loopVars>>
exceptLoops == <<rerunVars, contextVars, configVars, severityVars, pendingVars>>

\* the variables outside the checks and the statements of review_pr before its return
extVars == <<result_kwargs, farVars>>

vars == <<scanVars, reviewVars, extVars>>

-----------------------------------------------------------------------------
(* Characters and Python's str helpers.                                    *)

LowerSeq == <<"a","b","c","d","e","f","g","h","i","j","k","l","m",
              "n","o","p","q","r","s","t","u","v","w","x","y","z">>
UpperSeq == <<"A","B","C","D","E","F","G","H","I","J","K","L","M",
              "N","O","P","Q","R","S","T","U","V","W","X","Y","Z">>
LowerChars == {LowerSeq[i] : i \in DOMAIN LowerSeq}
UpperChars == {UpperSeq[i] : i \in DOMAIN UpperSeq}
DigitChars == {"0","1","2","3","4","5","6","7","8","9"}
SpaceChars == {" ", "\t", "\n", "\r", "\f"}
QuoteChars == {"'", "\""}
WordChars  == LowerChars \cup UpperChars \cup DigitChars \cup {"_"}

\* str.lower() of one character (what re.IGNORECASE compares)
LowerOf(c) ==
    IF c \in UpperChars
    THEN LowerSeq[CHOOSE i \in DOMAIN UpperSeq : UpperSeq[i] = c]
    ELSE c

Spaces(n) == [i \in 1..n |-> " "]

\* "*" * n
Stars(n) == [i \in 1..n |-> "*"]

\* s[a..b] (1-based, inclusive), empty when b < a
Slice(s, a, b) == IF b < a THEN <<>> ELSE SubSeq(s, a, b)

RECURSIVE Concat(_)
Concat(ss) == IF ss = <<>> THEN <<>> ELSE Head(ss) \o Concat(Tail(ss))

\* "\n".join(lines)
RECURSIVE JoinLines(_)
JoinLines(ls) ==
    IF ls = <<>> THEN <<>>
    ELSE IF Len(ls) = 1 THEN ls[1]
    ELSE JoinLines(SubSeq(ls, 1, Len(ls) \div 2)) \o <<"\n">>
         \o JoinLines(SubSeq(ls, Len(ls) \div 2 + 1, Len(ls)))

\* str.splitlines(): the lines without their "\n"; a trailing "\n" adds no empty line
splitlines(s) ==
    LET brk    == {i \in 1..Len(s) : s[i] = "\n"}
        \* the index of the j-th "\n", 0 for j = 0
        at(j)  == IF j = 0 THEN 0
                  ELSE CHOOSE i \in brk : Cardinality({b \in brk : b <= i}) = j
        m      == Cardinality(brk)
        n      == IF m = 0 THEN (IF s = <<>> THEN 0 ELSE 1)
                  ELSE IF at(m) < Len(s) THEN m + 1 ELSE m
    IN  [j \in 1..n |-> Slice(s, at(j - 1) + 1, IF j <= m THEN at(j) - 1 ELSE Len(s))]

\* str.lstrip(): drop the leading whitespace
RECURSIVE lstrip(_)
lstrip(s) ==
    IF s # <<>> /\ Head(s) \in SpaceChars THEN lstrip(Tail(s)) ELSE s

\* str.rstrip(): drop the trailing whitespace
RECURSIVE rstrip(_)
rstrip(s) ==
    IF s # <<>> /\ s[Len(s)] \in SpaceChars THEN rstrip(Slice(s, 1, Len(s) - 1)) ELSE s

\* str.strip()
strip(s) == rstrip(lstrip(s))

\* s[:pos].count("\n") with pos a 0-based offset
CountNewlines(s, pos) == Cardinality({i \in 1..pos : i <= Len(s) /\ s[i] = "\n"})

\* s.startswith(t, at) with at 1-based
StartsAt(s, t, at) ==
    /\ at + Len(t) - 1 <= Len(s)
    /\ \A i \in 1..Len(t) : s[at + i - 1] = t[i]

\* str.replace(old, new): every non-overlapping occurrence, left to right
RECURSIVE Replace(_, _, _)
Replace(s, old, new) ==
    IF old = <<>> \/ Len(s) < Len(old) THEN s
    ELSE IF StartsAt(s, old, 1)
         THEN new \o Replace(Slice(s, Len(old) + 1, Len(s)), old, new)
         ELSE <<Head(s)>> \o Replace(Tail(s), old, new)

-----------------------------------------------------------------------------
(* Regular expressions (module re).                                        *)

Lit(c)       == [t |-> "lit", c |-> c]
Cls(k)       == [t |-> "cls", k |-> k]
Cat(xs)      == [t |-> "cat", xs |-> xs]
Alt(xs)      == [t |-> "alt", xs |-> xs]
Rep(x, n)    == [t |-> "rep", x |-> x, min |-> n]     \* x{n,}  greedy
Lazy(x, n)   == [t |-> "lazy", x |-> x, min |-> n]    \* x{n,}? lazy
Opt(x)       == [t |-> "opt", x |-> x]                \* x?
Grp(x)       == [t |-> "grp", x |-> x]                \* the capture group read by group(1)
Str(s)       == [t |-> "str", s |-> s]                \* the characters of s, one after the other

NoGroup == <<0, 0>>

\* character classes used by the patterns of the analyzers
InClass(c, k) ==
    CASE k = "dot"      -> c # "\n"                      \* .
      [] k = "space"    -> c \in SpaceChars              \* \s
      [] k = "word"     -> c \in WordChars               \* \w
      [] k = "lower"    -> c \in LowerChars              \* [a-z]
      [] k = "upper"    -> c \in UpperChars              \* [A-Z]
      [] k = "alnum"    -> c \in LowerChars \cup UpperChars \cup DigitChars        \* [a-zA-Z0-9]
      [] k = "token"    -> c \in WordChars \cup {"-"}    \* [a-zA-Z0-9_-]
      [] k = "notquote" -> c \notin QuoteChars           \* [^'"]
      [] k = "notparen" -> c # ")"                       \* [^)]
      [] k = "notqmark" -> c # "?"                       \* [^?]
      [] k = "quote"    -> c \in QuoteChars              \* ['"]
      [] k = "sep"      -> c \in {"_", "-"}              \* [_-]

\* [a-z] and [A-Z] also match the other case under re.IGNORECASE
ClassMatches(c, k, ic) ==
    \/ InClass(c, k)
    \/ ic /\ k = "lower" /\ c \in UpperChars
    \/ ic /\ k = "upper" /\ c \in LowerChars

RECURSIVE Ends(_, _, _, _)
RECURSIVE EndsCat(_, _, _, _)
RECURSIVE EndsCatFrom(_, _, _, _, _)
RECURSIVE EndsAlt(_, _, _, _)
RECURSIVE EndsEach(_, _, _, _, _, _)
RECURSIVE EndsRep(_, _, _, _, _, _)

\* The matches of p in s that start at index i (1-based), as records
\* [e |-> index after the match, g |-> <<first, last + 1>> of the capture group],
\* in the order the backtracking matcher tries them: the head is re's match.
Ends(p, s, i, ic) ==
    CASE p.t = "lit" ->
            IF i <= Len(s) /\ (s[i] = p.c \/ (ic /\ LowerOf(s[i]) = LowerOf(p.c)))
            THEN <<[e |-> i + 1, g |-> NoGroup]>> ELSE <<>>
      [] p.t = "cls" ->
            IF i <= Len(s) /\ ClassMatches(s[i], p.k, ic)
            THEN <<[e |-> i + 1, g |-> NoGroup]>> ELSE <<>>
      [] p.t = "str" ->
            IF /\ i + Len(p.s) - 1 <= Len(s)
               /\ \A j \in 1..Len(p.s) :
                     \/ s[i + j - 1] = p.s[j]
                     \/ ic /\ LowerOf(s[i + j - 1]) = LowerOf(p.s[j])
            THEN <<[e |-> i + Len(p.s), g |-> NoGroup]>> ELSE <<>>
      [] p.t = "cat"  -> EndsCat(p.xs, s, i, ic)
      [] p.t = "alt"  -> EndsAlt(p.xs, s, i, ic)
      [] p.t = "opt"  -> Ends(p.x, s, i, ic) \o <<[e |-> i, g |-> NoGroup]>>
      [] p.t = "rep"  -> EndsRep(p.x, p.min, TRUE, s, i, ic)
      [] p.t = "lazy" -> EndsRep(p.x, p.min, FALSE, s, i, ic)
      [] p.t = "grp"  ->
            LET rs == Ends(p.x, s, i, ic)
            IN  [k \in 1..Len(rs) |-> [e |-> rs[k].e, g |-> <<i, rs[k].e>>]]

\* each of the matches rs[lo..hi] continued by the matches of x, in order
EndsEach(rs, x, s, ic, lo, hi) ==
    IF lo > hi THEN <<>>
    ELSE IF lo = hi
    THEN LET tl == Ends(x, s, rs[lo].e, ic)
         IN  [j \in 1..Len(tl) |->
                 [e |-> tl[j].e, g |-> IF tl[j].g # NoGroup THEN tl[j].g ELSE rs[lo].g]]
    ELSE EndsEach(rs, x, s, ic, lo, (lo + hi) \div 2)
         \o EndsEach(rs, x, s, ic, (lo + hi) \div 2 + 1, hi)

\* the matches rs of xs[1..k-1] continued by xs[k], xs[k+1], ...: the order is
\* that of the choices at the first element, then at the second, and so on
EndsCatFrom(xs, k, rs, s, ic) ==
    IF k > Len(xs) THEN rs
    ELSE CHOOSE all \in {EndsCatFrom(xs, k + 1, next, s, ic) :
                            next \in {EndsEach(rs, xs[k], s, ic, 1, Len(rs))}} : TRUE

EndsCat(xs, s, i, ic) == EndsCatFrom(xs, 1, <<[e |-> i, g |-> NoGroup]>>, s, ic)

EndsAlt(xs, s, i, ic) ==
    IF xs = <<>> THEN <<>>
    ELSE Ends(Head(xs), s, i, ic) \o EndsAlt(Tail(xs), s, i, ic)

\* the index after the run of characters from index i on that x, one literal
\* or one class, matches
RunEnd(x, s, i, ic) ==
    LET others == {j \in i..Len(s) : Ends(x, s, j, ic) = <<>>}
    IN  IF others = {} THEN Len(s) + 1 ELSE CHOOSE j \in others : \A k \in others : j <= k

\* x{min,} greedy (one more x first) or lazy (stop first); over one literal or
\* one class the matches are the prefixes of the run of at least min characters,
\* the longest first when greedy and the shortest first when lazy
EndsRep(x, min, greedy, s, i, ic) ==
    IF x.t \in {"lit", "cls"}
    THEN LET last == RunEnd(x, s, i, ic)
             n    == last - (i + min) + 1
         IN  IF n <= 0 THEN <<>>
             ELSE [k \in 1..n |->
                      [e |-> IF greedy THEN last - k + 1 ELSE i + min + k - 1, g |-> NoGroup]]
    ELSE LET once  == SelectSeq(Ends(x, s, i, ic), LAMBDA r : r.e > i)
             less  == IF min > 0 THEN min - 1 ELSE 0
             RECURSIVE More(_)
             More(k) == IF k > Len(once) THEN <<>>
                        ELSE EndsRep(x, less, greedy, s, once[k].e, ic) \o More(k + 1)
             stop  == IF min = 0 THEN <<[e |-> i, g |-> NoGroup]>> ELSE <<>>
         IN  IF greedy THEN More(1) \o stop ELSE stop \o More(1)

NoMatch == [start |-> 0, end |-> 0, g |-> NoGroup]

\* pattern.match(s) anchored at index i: re's match there, or NoMatch
MatchAt(p, s, i, ic) ==
    LET rs == Ends(p, s, i, ic)
    IN  IF rs = <<>> THEN NoMatch ELSE [start |-> i, end |-> rs[1].e, g |-> rs[1].g]

\* re.match(p, s): a match at the start of s
re_match(p, s, ic) == MatchAt(p, s, 1, ic) # NoMatch

\* re.search(p, s) from index pos: the leftmost match, or NoMatch
SearchFrom(p, s, pos, ic) ==
    LET starts == {i \in pos..(Len(s) + 1) : MatchAt(p, s, i, ic) # NoMatch}
    IN  IF starts = {} THEN NoMatch
        ELSE MatchAt(p, s, CHOOSE i \in starts : \A j \in starts : i <= j, ic)

re_search(p, s, ic) == SearchFrom(p, s, 1, ic) # NoMatch

\* re.finditer(p, s): the non-overlapping matches, left to right
RECURSIVE FindIterFrom(_, _, _, _)
FindIterFrom(p, s, pos, ic) ==
    LET m == SearchFrom(p, s, pos, ic)
    IN  IF pos > Len(s) + 1 \/ m = NoMatch THEN <<>>
        ELSE <<m>> \o FindIterFrom(p, s, IF m.end = m.start THEN m.end + 1 ELSE m.end, ic)

re_finditer(p, s, ic) == FindIterFrom(p, s, 1, ic)

\* match.group() and match.group(1)
group0(s, m) == Slice(s, m.start, m.end - 1)
group1(s, m) == Slice(s, m.g[1], m.g[2] - 1)

-----------------------------------------------------------------------------
(* Results of a call: a value returned, or an exception raised.            *)

None == "None"

Return(v) == [raised |-> "none", value |-> v]
Raise(e)  == [raised |-> e, value |-> <<>>]

\* a local variable: x is computed once and the rest K of the body reads it
Local(x, K(_)) == CHOOSE v \in {K(r) : r \in {x}} : TRUE

\* a call inside a body: its exception leaves the body, its value goes on to K
Try(x, K(_)) ==
    Local(x, LAMBDA r : IF r.raised # "none" THEN Raise(r.raised) ELSE K(r.value))

-----------------------------------------------------------------------------
(* core/models.py: Issue, and BaseAnalyzer._create_issue.                  *)

\* The fields of Issue.  None of them declares a default, so pydantic (version 2,
\* the one core/config.py imports pydantic_settings and field_validator from)
\* requires every one of them, the Optional[...] ones included.
IssueFields ==
    {"severity", "message", "file_path", "line_number",
     "code_snippet", "rule_name", "suggested_fix"}

IssueSeverity == {"error", "warning", "info", "suggestion"}

\* Issue(**kwargs): the record, or pydantic's ValidationError
Issue(kwargs) ==
    IF IssueFields \subseteq DOMAIN kwargs /\ kwargs.severity \in IssueSeverity
    THEN Return([f \in IssueFields |-> kwargs[f]])
    ELSE Raise("ValidationError")

_create_issue(kwargs) == Issue(kwargs)

-----------------------------------------------------------------------------
(* analyzers/code_style.py                                                 *)

\* r"(def|function|public|private|protected)\s+\w+\s*\([^)]*\)\s*\{?"
method_pattern ==
    Cat(<< Alt(<< Str(<<"d","e","f">>),
                  Str(<<"f","u","n","c","t","i","o","n">>),
                  Str(<<"p","u","b","l","i","c">>),
                  Str(<<"p","r","i","v","a","t","e">>),
                  Str(<<"p","r","o","t","e","c","t","e","d">>) >>),
           Rep(Cls("space"), 1), Rep(Cls("word"), 1), Rep(Cls("space"), 0),
           Lit("("), Rep(Cls("notparen"), 0), Lit(")"),
           Rep(Cls("space"), 0), Opt(Lit("{")) >>)

\* current_method is None (<<>> here) or a line (<<line>> here); its truth value in Python
Truthy(x) == x # <<>> /\ x[1] # <<>>

RECURSIVE MethodLengthLoop(_, _, _, _, _, _, _)
\* the for loop of _check_method_length from line i on
MethodLengthLoop(path, lines, i, max_length, current_method, line_count, issues) ==
    IF i > Len(lines) THEN Return(issues)
    ELSE IF re_search(method_pattern, lines[i], FALSE)
    THEN IF Truthy(current_method) /\ line_count > max_length
         THEN LET made == _create_issue(
                      [severity      |-> "warning",
                       message       |-> "Method exceeds maximum length of " \o ToString(max_length) \o " lines",
                       file_path     |-> path,
                       line_number   |-> i - line_count,
                       rule_name     |-> "max_method_length",
                       suggested_fix |-> "Consider breaking down the method into smaller functions"])
              IN  IF made.raised # "none" THEN Raise(made.raised)
                  ELSE MethodLengthLoop(path, lines, i + 1, max_length, <<lines[i]>>, 1,
                                        Append(issues, made.value))
         ELSE MethodLengthLoop(path, lines, i + 1, max_length, <<lines[i]>>, 1, issues)
    ELSE IF Truthy(current_method)
    THEN MethodLengthLoop(path, lines, i + 1, max_length, current_method, line_count + 1, issues)
    ELSE MethodLengthLoop(path, lines, i + 1, max_length, current_method, line_count, issues)

\* _check_method_length with a flush at end of file (the trailing method is closed too)
check_method_length_flushing(path, text, standards) ==
    MethodLengthLoop(path, splitlines(text) \o << <<"d","e","f"," ","f","(",")">> >>, 1,
                     standards.max_method_length, <<>>, 0, <<>>)

_check_method_length(path, text, standards) ==
    MethodLengthLoop(path, splitlines(text), 1, standards.max_method_length, <<>>, 0, <<>>)

RECURSIVE ComplexityLoop(_, _, _, _, _)
\* the for loop of _check_complexity from line i on
ComplexityLoop(path, lines, i, max_depth, issues) ==
    IF i > Len(lines) THEN Return(issues)
    ELSE LET indent_level == Len(lines[i]) - Len(lstrip(lines[i]))
             depth        == indent_level \div 4
         IN  IF depth > max_depth
             THEN LET made == _create_issue(
                          [severity      |-> "warning",
                           message       |-> "Code nesting depth exceeds maximum of " \o ToString(max_depth),
                           file_path     |-> path,
                           line_number   |-> i,
                           rule_name     |-> "max_nesting_depth",
                           suggested_fix |-> "Consider restructuring to reduce nesting"])
                  IN  IF made.raised # "none" THEN Raise(made.raised)
                      ELSE ComplexityLoop(path, lines, i + 1, max_depth, Append(issues, made.value))
             ELSE ComplexityLoop(path, lines, i + 1, max_depth, issues)

_check_complexity(path, text, standards) ==
    ComplexityLoop(path, splitlines(text), 1, standards.max_nesting_depth, <<>>)

-----------------------------------------------------------------------------
(* Inputs of the code style checks.                                        *)

MaxLines == 3             \* longest file text drawn line by line

\* config.py: "max_method_length": 50, "max_nesting_depth": 4
DefaultMaxMethodLength == 50
DefaultMaxNestingDepth == 4

LineDef      == <<"d","e","f"," ","f","(",")",":">>                   \* def f():
LinePublic   == Spaces(4) \o <<"p","u","b","l","i","c"," ","m","(","a",")"," ","{">>
LineNoParen  == <<"d","e","f"," ","f">>                               \* no parameter list
LineBody     == <<"x">>
LineDeep20   == Spaces(4 * (DefaultMaxNestingDepth + 1)) \o <<"x">>    \* 20 leading spaces
LineDeep19   == Spaces(4 * (DefaultMaxNestingDepth + 1) - 1) \o <<"x">>
LineTabs     == <<"\t","\t","\t","\t","x">>
LineBlank8   == Spaces(8)                                             \* whitespace only

StyleLines ==
    {LineDef, LinePublic, LineNoParen, LineBody, LineDeep20, LineDeep19, LineTabs, LineBlank8}

SeqsUpTo(S, n) == UNION {[1..k -> S] : k \in 0..n}

\* a declaration followed by n lines that declare nothing
MethodOf(n) == <<LineDef>> \o [i \in 1..n |-> LineBody]

StyleContents ==
    {JoinLines(ls) : ls \in SeqsUpTo(StyleLines, MaxLines)}
    \cup {JoinLines(MethodOf(DefaultMaxMethodLength + 1)),
          JoinLines(MethodOf(DefaultMaxMethodLength + 1) \o <<LineDef>>),
          JoinLines(MethodOf(DefaultMaxMethodLength - 1) \o <<LineDef>>),
          JoinLines(MethodOf(DefaultMaxMethodLength + 1) \o <<LineDef>>) \o <<"\n">>}

StyleStandards ==
    {[max_method_length |-> DefaultMaxMethodLength, max_nesting_depth |-> DefaultMaxNestingDepth],
     [max_method_length |-> 1, max_nesting_depth |-> 0],
     [max_method_length |-> 2, max_nesting_depth |-> 1]}

PathA == <<"a",".","p","y">>
PathB == <<"b",".","p","y">>

NotCalled == [op |-> "none", ret |-> Return(<<>>)]

\* a call that has not finished
Running == [raised |-> "running", value |-> <<>>]

Analyzers == {"architecture", "style", "security"}

\* no review_pr call is in progress
NoReview ==
    /\ pr_context = [files_changed |-> <<>>, diff_content |-> <<>>]
    /\ pc = "idle"
    /\ mcp = Running
    /\ tasks = [a \in Analyzers |-> [state |-> "unstarted", ret |-> Running]]
    /\ gather_exc = "none"
    /\ local_results = <<>>
    /\ all_issues = <<>>
    /\ summary = "unset"
    /\ review_out = Running

\* no analyzer has been called on its own
NoRerun == runs = [a \in Analyzers |-> <<>>]

\* review_pr has not reached its return statement
NoKwargs ==
    [issues               |-> <<>>,
     summary              |-> "unset",
     review_time          |-> None,
     total_files_reviewed |-> 0,
     stats                |-> [mcp_issues |-> 0, local_issues |-> 0, files_analyzed |-> 0]]

\* no PR-context provider has been called
NoContext ==
    /\ http = [pr |-> 200, files |-> 200]
    /\ files_data = <<>>
    /\ ctx_out = [op |-> "none", ret |-> Running]

\* load_config has not been called
NoConfig ==
    /\ yaml_config = [kind |-> "missing"]
    /\ config_out = Running

\* no severities have been compared
NoSeverity ==
    /\ severities = <<>>
    /\ cmp_out = [op |-> "none", result |-> FALSE, order |-> <<>>]

DefaultConcurrentReviews == 5

\* no webhook request has been answered
NoWebhook == [status |-> 0, detail |-> "none", parsed |-> FALSE, agent_called |-> FALSE,
              signature |-> [kind |-> "absent", key |-> "", msg |-> ""],
              body |-> [id |-> "", kind |-> "object", repository |-> ""],
              event_type |-> "None"]

\* the agent is constructed and not started
AgentConstructed ==
    /\ running = FALSE
    /\ monitor = [pc |-> "unstarted", pending |-> 0, polls |-> 0, prs |-> <<>>, log |-> <<>>,
                  polled |-> "none", slept |-> "none"]
    /\ in_progress = 0
    /\ stats = [type |-> "dict", value |-> [prs_reviewed |-> 0, issues_found |-> 0]]
    /\ completed = [prs_reviewed |-> 0, issues_found |-> 0]
    /\ status_out = [called |-> FALSE, running |-> FALSE,
                     completed |-> [prs_reviewed |-> 0, issues_found |-> 0], ret |-> Running]
    /\ webhook_out = NoWebhook

NoAgent ==
    /\ concurrent_reviews = DefaultConcurrentReviews
    /\ webhook_secret = [integrations |-> None, env |-> None]
    /\ AgentConstructed

\* nothing outside review_pr and the checks has happened
NoPending == pending_out = [called |-> FALSE, repositories |-> <<>>, answers |-> <<>>, ret |-> Running]

NoLoops == loops = <<>>

NoFar ==
    /\ NoRerun
    /\ NoContext
    /\ NoConfig
    /\ NoSeverity
    /\ NoAgent
    /\ NoPending
    /\ NoLoops

\* nothing outside the checks and the statements of review_pr before its return has happened
NoExt ==
    /\ result_kwargs = NoKwargs
    /\ NoFar

InitStyle ==
    /\ NoReview
    /\ NoExt
    /\ file_path = PathA
    /\ content \in StyleContents
    /\ coding_standards \in StyleStandards
    /\ rule = None
    /\ out = NotCalled

CheckMethodLength ==
    /\ out = NotCalled
    /\ out' = [op |-> "_check_method_length",
               ret |-> _check_method_length(file_path, content, coding_standards)]
    /\ UNCHANGED <<file_path, content, rule, coding_standards>>
    /\ UNCHANGED reviewVars
    /\ UNCHANGED extVars

CheckComplexity ==
    /\ out = NotCalled
    /\ out' = [op |-> "_check_complexity",
               ret |-> _check_complexity(file_path, content, coding_standards)]
    /\ UNCHANGED <<file_path, content, rule, coding_standards>>
    /\ UNCHANGED reviewVars
    /\ UNCHANGED extVars

NextStyle == CheckMethodLength \/ CheckComplexity

SpecStyle == InitStyle /\ [][NextStyle]_vars

-----------------------------------------------------------------------------
(* Claims about the code style checks (specification SpecStyle).           *)

\* the elements of a finite set of integers, ascending
RECURSIVE Ascending(_)
Ascending(S) ==
    IF S = {} THEN <<>>
    ELSE LET m == CHOOSE x \in S : \A y \in S : x <= y
         IN  <<m>> \o Ascending(S \ {m})

\* the 1-based indexes of the declaration lines of a text
DeclLines(text) ==
    LET ls == splitlines(text)
    IN  {i \in 1..Len(ls) : re_search(method_pattern, ls[i], FALSE)}

\* the declaration lines whose method is closed by a later declaration line
\* after more than max lines (the declaration line and those up to the next one)
LongClosedMethods(text, max) ==
    LET D == DeclLines(text)
    IN  {d \in D : \E t \in D : /\ t > d
                                /\ \A u \in D : ~(d < u /\ u < t)
                                /\ t - d > max}

LineNumbers(issues) == [k \in 1..Len(issues) |-> issues[k].line_number]

\* C8 (as claimed): the method-length check returns exactly one warning
\* max_method_length per method that a later declaration line closes with a line
\* count above max_method_length, at the 1-based index of its declaration line.
C8_WarnsPerLongClosedMethod ==
    out.op = "_check_method_length" =>
        /\ out.ret.raised = "none"
        /\ LineNumbers(out.ret.value)
             = Ascending(LongClosedMethods(content, coding_standards.max_method_length))
        /\ \A k \in 1..Len(out.ret.value) :
              /\ out.ret.value[k].severity = "warning"
              /\ out.ret.value[k].rule_name = "max_method_length"

\* the text up to and including its last declaration line
UpToLastDecl(text) ==
    LET ls == splitlines(text)
        D  == DeclLines(text)
    IN  IF D = {} THEN <<>>
        ELSE JoinLines(SubSeq(ls, 1, CHOOSE d \in D : \A e \in D : e <= d))

\* C9: the method-length check never emits for the last method of a file: a
\* text with d declaration lines yields at most d - 1 issues, a text with at
\* most one declaration line returns no issue (and does not raise), and the
\* lines after the last declaration line do not change what the check returns.
C9_NoFlushAtEndOfFile ==
    out.op = "_check_method_length" =>
        LET d == Cardinality(DeclLines(content))
        IN  /\ Len(out.ret.value) <= (IF d = 0 THEN 0 ELSE d - 1)
            /\ d <= 1 => out.ret = Return(<<>>)
            /\ out.ret = _check_method_length(file_path, UpToLastDecl(content), coding_standards)

\* C9 witness: a declaration followed by 51 other lines and end of file, with
\* max_method_length = 50, was checked and nothing was emitted.
C9_Witness ==
    /\ out.op = "_check_method_length"
    /\ content = JoinLines(MethodOf(DefaultMaxMethodLength + 1))
    /\ coding_standards.max_method_length = DefaultMaxMethodLength
    /\ out.ret = Return(<<>>)

\* the number of leading whitespace characters of a line
LeadingWidth(line) ==
    LET solid == {i \in 1..Len(line) : line[i] \notin SpaceChars}
    IN  IF solid = {} THEN Len(line)
        ELSE (CHOOSE i \in solid : \A j \in solid : i <= j) - 1

DeepLines(text, max) ==
    LET ls == splitlines(text)
    IN  {i \in 1..Len(ls) : LeadingWidth(ls[i]) \div 4 > max}

\* C10 (as claimed): the nesting-depth check returns exactly one warning
\* max_nesting_depth for each line whose leading indentation width divided by
\* 4 is above max_nesting_depth, at that line's 1-based index, and no other.
C10_WarnsPerDeepLine ==
    out.op = "_check_complexity" =>
        /\ out.ret.raised = "none"
        /\ LineNumbers(out.ret.value)
             = Ascending(DeepLines(content, coding_standards.max_nesting_depth))
        /\ \A k \in 1..Len(out.ret.value) :
              /\ out.ret.value[k].severity = "warning"
              /\ out.ret.value[k].rule_name = "max_nesting_depth"

-----------------------------------------------------------------------------
(* analyzers/architecture.py                                               *)

\* A regular expression string: its syntax tree, or the fact that re.compile
\* rejects it (re.error).  None is the third value a scope can have.
Regex(src, ast)  == [kind |-> "str", src |-> src, compiles |-> TRUE, ast |-> ast]
BadRegex(src)    == [kind |-> "str", src |-> src, compiles |-> FALSE, ast |-> Cat(<<>>)]
NoneValue        == [kind |-> "none", src |-> "None", compiles |-> FALSE, ast |-> Cat(<<>>)]
Text(s)          == [kind |-> "text", src |-> s, compiles |-> FALSE, ast |-> Cat(<<>>)]

\* What iterating config.rules.architecture hands to _check_rule: a dict (the
\* annotation of _check_rule), a (field name, list) tuple (iterating the pydantic
\* model ArchitectureRules), or a pydantic rule object such as DependencyRule.
DictRule(d)   == [kind |-> "dict", d |-> d]
TupleItem(f)  == [kind |-> "tuple", d |-> [field |-> Text(f)]]
ModelRule(d)  == [kind |-> "model", d |-> d]

\* rule[key]
GetItem(r, key) ==
    IF r.kind # "dict" THEN Raise("TypeError")
    ELSE IF key \notin DOMAIN r.d THEN Raise("KeyError")
    ELSE Return(r.d[key])

\* _file_matches_scope with re.search in place of re.match (not anchored)
file_matches_scope_searching(path, scope_pattern) ==
    IF scope_pattern.kind # "str" THEN Raise("TypeError")
    ELSE IF ~scope_pattern.compiles THEN Raise("re.error")
    ELSE Return(re_search(scope_pattern.ast, path, FALSE))

\* re.match(scope_pattern, file_path), as bool(...) or the exception
_file_matches_scope(path, scope_pattern) ==
    IF scope_pattern.kind # "str" THEN Raise("TypeError")
    ELSE IF ~scope_pattern.compiles THEN Raise("re.error")
    ELSE Return(re_match(scope_pattern.ast, path, FALSE))

RECURSIVE CheckRuleLoop(_, _, _, _, _, _)
\* the for loop of _check_rule from line i on
CheckRuleLoop(path, lines, i, r, pattern, issues) ==
    IF i > Len(lines) THEN Return(issues)
    ELSE IF re_search(pattern, lines[i], FALSE)
    THEN LET message == GetItem(r, "message")
             name    == GetItem(r, "name")
         IN  IF message.raised # "none" THEN Raise(message.raised)
             ELSE IF name.raised # "none" THEN Raise(name.raised)
             ELSE LET made == _create_issue(
                          [severity     |-> "error",
                           message      |-> message.value.src,
                           file_path    |-> path,
                           line_number  |-> i,
                           code_snippet |-> strip(lines[i]),
                           rule_name    |-> name.value.src])
                  IN  IF made.raised # "none" THEN Raise(made.raised)
                      ELSE CheckRuleLoop(path, lines, i + 1, r, pattern,
                                         Append(issues, made.value))
    ELSE CheckRuleLoop(path, lines, i + 1, r, pattern, issues)

_check_rule(path, text, r) ==
    LET scope == GetItem(r, "scope")
    IN  IF scope.raised # "none" THEN Raise(scope.raised)
        ELSE LET applies == _file_matches_scope(path, scope.value)
             IN  IF applies.raised # "none" THEN Raise(applies.raised)
                 ELSE IF ~applies.value THEN Return(<<>>)
                 ELSE LET pattern == GetItem(r, "pattern")
                      IN  IF pattern.raised # "none" THEN Raise(pattern.raised)
                          ELSE IF pattern.value.kind # "str" THEN Raise("TypeError")
                          ELSE IF ~pattern.value.compiles THEN Raise("re.error")
                          ELSE CheckRuleLoop(path, splitlines(text), 1, r,
                                             pattern.value.ast, <<>>)

RECURSIVE ArchRulesLoop(_, _, _, _, _)
\* the inner loop of ArchitectureAnalyzer.analyze: the rules from index k on
ArchRulesLoop(path, text, rules, k, issues) ==
    IF k > Len(rules) THEN Return(issues)
    ELSE Try(_check_rule(path, text, rules[k]),
             LAMBDA violations : ArchRulesLoop(path, text, rules, k + 1, issues \o violations))

RECURSIVE ArchFilesLoop(_, _, _, _)
\* the outer loop of ArchitectureAnalyzer.analyze: the files from index f on;
\* diff_content is the dict as the sequence of its (path, text) items
ArchFilesLoop(diff_content, rules, f, issues) ==
    IF f > Len(diff_content) THEN Return(issues)
    ELSE Try(ArchRulesLoop(diff_content[f][1], diff_content[f][2], rules, 1, issues),
             LAMBDA found : ArchFilesLoop(diff_content, rules, f + 1, found))

ArchitectureAnalyzer_analyze(diff_content, rules) ==
    ArchFilesLoop(diff_content, rules, 1, <<>>)

-----------------------------------------------------------------------------
(* Inputs of the architecture check.                                       *)

\* r"render|redirect"          (config.py, no_view_in_service)
PatRender == Regex("render|redirect", Alt(<<Str(<<"r","e","n","d","e","r">>), Str(<<"r","e","d","i","r","e","c","t">>)>>))
\* r"@staticmethod"            (config.py, no_static_utils)
PatStatic == Regex("@staticmethod", Str(<<"@","s","t","a","t","i","c","m","e","t","h","o","d">>))
\* r"import.*\.\..*"           (config.py, no_circular_deps)
PatImport == Regex("import.*\\.\\..*",
                   Cat(<<Str(<<"i","m","p","o","r","t">>), Rep(Cls("dot"), 0), Lit("."), Lit("."), Rep(Cls("dot"), 0)>>))

\* "*/service/*"               (config.py, the scope of no_view_in_service: a glob,
\*                              which re rejects with "nothing to repeat")
ScopeGlobService == BadRegex("*/service/*")
\* r".*/service/.*"            a scope written as a regular expression
ScopeService == Regex(".*/service/.*",
                      Cat(<<Rep(Cls("dot"), 0), Str(<<"/","s","e","r","v","i","c","e","/">>), Rep(Cls("dot"), 0)>>))
\* r"src/"
ScopeSrc == Regex("src/", Str(<<"s","r","c","/">>))

RuleService ==
    DictRule([name |-> Text("no_view_in_service"), pattern |-> PatRender,
              scope |-> ScopeService, message |-> Text("View logic in service layer")])
RuleServiceGlob ==
    DictRule([name |-> Text("no_view_in_service"), pattern |-> PatRender,
              scope |-> ScopeGlobService, message |-> Text("View logic in service layer")])
RuleSrcStatic ==
    DictRule([name |-> Text("no_static_utils"), pattern |-> PatStatic,
              scope |-> ScopeSrc, message |-> Text("Prefer instance methods over static utilities")])
\* a dependency rule as config.py writes it: no scope key
RuleImportNoScope ==
    DictRule([name |-> Text("no_circular_deps"), pattern |-> PatImport,
              message |-> Text("Avoid parent directory imports")])
\* a dependency rule with the default of DependencyRule.scope
RuleImportScopeNone ==
    DictRule([name |-> Text("no_circular_deps"), pattern |-> PatImport,
              scope |-> NoneValue, message |-> Text("Avoid parent directory imports")])
\* the DependencyRule object itself
RuleImportModel ==
    ModelRule([name |-> Text("no_circular_deps"), pattern |-> PatImport,
               scope |-> NoneValue, message |-> Text("Avoid parent directory imports")])
\* a second rule with the pattern of RuleService and another scope
RuleSrcRender ==
    DictRule([name |-> Text("no_view_in_src"), pattern |-> PatRender,
              scope |-> ScopeSrc, message |-> Text("View logic in service layer")])

ArchRules ==
    {RuleService, RuleServiceGlob, RuleSrcStatic, RuleSrcRender, RuleImportNoScope,
     RuleImportScopeNone, RuleImportModel, TupleItem("layer_violations")}

\* iterating the pydantic model ArchitectureRules yields its three fields
ArchitectureRulesItems ==
    <<TupleItem("layer_violations"), TupleItem("dependency_rules"),
      TupleItem("pattern_violations")>>

PathService    == <<"s","r","c","/","s","e","r","v","i","c","e","/","a",".","p","y">>
PathController == <<"s","r","c","/","c","o","n","t","r","o","l","l","e","r","/","b",".","p","y">>
PathLibSrc     == <<"l","i","b","/","s","r","c","/","s","e","r","v","i","c","e",".","p","y">>
ArchPaths == {PathService, PathController, PathLibSrc}

LineRender     == <<" "," ","r","e","t","u","r","n"," ","r","e","n","d","e","r","(","x",")"," "," ">>
LineRedirect   == <<"r","e","d","i","r","e","c","t">>
LineStatic     == <<"\t","@","s","t","a","t","i","c","m","e","t","h","o","d">>
LineImport     == <<"f","r","o","m"," ","a"," ","i","m","p","o","r","t"," ",".",".","b">>
ArchLines == {LineRender, LineRedirect, LineStatic, LineImport, LineBody}

ArchContents == {JoinLines(ls) : ls \in SeqsUpTo(ArchLines, MaxLines)}

InitArch ==
    /\ NoReview
    /\ NoExt
    /\ file_path \in ArchPaths
    /\ content \in ArchContents
    /\ rule \in ArchRules
    /\ coding_standards = None
    /\ out = NotCalled

CheckRule ==
    /\ out = NotCalled
    /\ out' = [op |-> "_check_rule", ret |-> _check_rule(file_path, content, rule)]
    /\ UNCHANGED <<file_path, content, rule, coding_standards>>
    /\ UNCHANGED reviewVars
    /\ UNCHANGED extVars

\* analyze over the one-file context {file_path: content}, config.rules.architecture
\* iterating as the rule and a second rule
AnalyzeArchitecture ==
    /\ out = NotCalled
    /\ out' = [op |-> "ArchitectureAnalyzer.analyze",
               ret |-> ArchitectureAnalyzer_analyze(<< <<file_path, content>> >>,
                                                    <<rule, RuleSrcRender>>)]
    /\ UNCHANGED <<file_path, content, rule, coding_standards>>
    /\ UNCHANGED reviewVars
    /\ UNCHANGED extVars

NextArch == CheckRule \/ AnalyzeArchitecture

SpecArch == InitArch /\ [][NextArch]_vars

-----------------------------------------------------------------------------
(* Claims about the architecture check (specification SpecArch).           *)

HasNoScope(r) ==
    r.kind \in {"dict", "model"} /\ ("scope" \notin DOMAIN r.d \/ r.d.scope.kind = "none")

\* the 1-based indexes of the lines of a text in which the rule's pattern is found
MatchingLines(text, r) ==
    LET ls == splitlines(text)
    IN  {i \in 1..Len(ls) : re_search(r.d.pattern.ast, ls[i], FALSE)}

\* C5 (as claimed): a rule without a scope (the key absent, or None) is applied
\* to every file path: _check_rule does not raise and reports every line the
\* rule's pattern is found in.
C5_NoScopeMatchesEveryFile ==
    (out.op = "_check_rule" /\ HasNoScope(rule)) =>
        /\ out.ret.raised = "none"
        /\ LineNumbers(out.ret.value) = Ascending(MatchingLines(content, rule))

\* the rule is a dict whose scope is a regular expression that compiles
HasRegexScope(r) ==
    r.kind = "dict" /\ "scope" \in DOMAIN r.d /\ r.d.scope.kind = "str" /\ r.d.scope.compiles

\* C6: a rule whose scope does not match the file path (re.match, anchored at
\* the start of the path) contributes no issue for that file, whatever the text:
\* _check_rule returns the empty list.
C6_OutOfScopeNoIssues ==
    (/\ out.op = "_check_rule"
     /\ HasRegexScope(rule)
     /\ ~re_match(rule.d.scope.ast, file_path, FALSE)) => out.ret = Return(<<>>)

\* C6 witness: a rule was checked on a path its scope is found in but does not
\* match from the start, on a text with a line the rule's pattern is found in.
C6_Witness ==
    /\ out.op = "_check_rule"
    /\ HasRegexScope(rule)
    /\ ~re_match(rule.d.scope.ast, file_path, FALSE)
    /\ re_search(rule.d.scope.ast, file_path, FALSE)
    /\ MatchingLines(content, rule) # {}
    /\ out.ret = Return(<<>>)

\* C7 (as claimed): a rule whose scope matches the file yields exactly one
\* issue per line its pattern is found in, in line order, each with severity
\* error, the line's 1-based index, the stripped line as code_snippet and the
\* rule's name.
C7_OneIssuePerMatchingLine ==
    (/\ out.op = "_check_rule"
     /\ HasRegexScope(rule)
     /\ re_match(rule.d.scope.ast, file_path, FALSE)) =>
        LET ls == splitlines(content)
        IN  /\ out.ret.raised = "none"
            /\ LineNumbers(out.ret.value) = Ascending(MatchingLines(content, rule))
            /\ \A k \in 1..Len(out.ret.value) :
                  /\ out.ret.value[k].severity = "error"
                  /\ out.ret.value[k].code_snippet = strip(ls[out.ret.value[k].line_number])
                  /\ out.ret.value[k].rule_name = rule.d.name.src

-----------------------------------------------------------------------------
(* analyzers/security.py                                                   *)

Dots     == Rep(Cls("dot"), 0)          \* .*
LazyDots == Lazy(Cls("dot"), 0)         \* .*?
Blanks   == Rep(Cls("space"), 0)        \* \s*

\* the patterns of _check_sql_injection, in list order
sql_injection_patterns ==
    << \* r"execute\s*\(\s*[\"'].*?\%.*?[\"']"
       Cat(<<Str(<<"e","x","e","c","u","t","e">>), Blanks, Lit("("), Blanks, Cls("quote"),
             LazyDots, Lit("%"), LazyDots, Cls("quote")>>),
       \* r"executemany\s*\(\s*[\"'].*?\%.*?[\"']"
       Cat(<<Str(<<"e","x","e","c","u","t","e","m","a","n","y">>), Blanks, Lit("("), Blanks, Cls("quote"),
             LazyDots, Lit("%"), LazyDots, Cls("quote")>>),
       \* r"raw_connection\s*\(\s*[\"'].*?[\"']"
       Cat(<<Str(<<"r","a","w","_","c","o","n","n","e","c","t","i","o","n">>), Blanks, Lit("("), Blanks, Cls("quote"),
             LazyDots, Cls("quote")>>),
       \* r"cursor\.execute\s*\([^?]*\+"
       Cat(<<Str(<<"c","u","r","s","o","r",".","e","x","e","c","u","t","e">>), Blanks, Lit("("), Rep(Cls("notqmark"), 0), Lit("+")>>) >>

MinApiKeyLen == 16      \* {16,} in the api_key pattern
MinSecretLen == 8       \* {8,} in the password, secret and token patterns

\* the patterns of _check_hardcoded_secrets, in dict order
secret_patterns ==
    << \* r"api[_-]?key.*?['\"]([a-zA-Z0-9]{16,})['\"]"
       [secret_type |-> "api_key",
        pattern |-> Cat(<<Str(<<"a","p","i">>), Opt(Cls("sep")), Str(<<"k","e","y">>), LazyDots, Cls("quote"),
                          Grp(Rep(Cls("alnum"), MinApiKeyLen)), Cls("quote")>>)],
       \* r"password.*?['\"]([^'\"]{8,})['\"]"
       [secret_type |-> "password",
        pattern |-> Cat(<<Str(<<"p","a","s","s","w","o","r","d">>), LazyDots, Cls("quote"),
                          Grp(Rep(Cls("notquote"), MinSecretLen)), Cls("quote")>>)],
       \* r"secret.*?['\"]([^'\"]{8,})['\"]"
       [secret_type |-> "secret",
        pattern |-> Cat(<<Str(<<"s","e","c","r","e","t">>), LazyDots, Cls("quote"),
                          Grp(Rep(Cls("notquote"), MinSecretLen)), Cls("quote")>>)],
       \* r"token.*?['\"]([a-zA-Z0-9_-]{8,})['\"]"
       [secret_type |-> "token",
        pattern |-> Cat(<<Str(<<"t","o","k","e","n">>), LazyDots, Cls("quote"),
                          Grp(Rep(Cls("token"), MinSecretLen)), Cls("quote")>>)] >>

\* the checks of _check_insecure_configs, in dict order
insecure_config_patterns ==
    << \* r"debug\s*=\s*True"
       [check_name |-> "debug_mode",
        pattern |-> Cat(<<Str(<<"d","e","b","u","g">>), Blanks, Lit("="), Blanks, Str(<<"T","r","u","e">>)>>),
        message |-> "Debug mode enabled in configuration",
        fix     |-> "Disable debug mode in production environments"],
       \* r"cors_allow_all\s*=\s*True|[\"']\\*[\"']"   (\\* is a run of backslashes)
       [check_name |-> "cors_all",
        pattern |-> Alt(<<Cat(<<Str(<<"c","o","r","s","_","a","l","l","o","w","_","a","l","l">>), Blanks, Lit("="), Blanks, Str(<<"T","r","u","e">>)>>),
                          Cat(<<Cls("quote"), Rep(Lit("\\"), 0), Cls("quote")>>)>>),
        message |-> "Overly permissive CORS configuration",
        fix     |-> "Specify allowed origins explicitly"],
       \* r"verify\s*=\s*False|SSL_VERIFY\s*=\s*False"
       [check_name |-> "ssl_verify",
        pattern |-> Alt(<<Cat(<<Str(<<"v","e","r","i","f","y">>), Blanks, Lit("="), Blanks, Str(<<"F","a","l","s","e">>)>>),
                          Cat(<<Str(<<"S","S","L","_","V","E","R","I","F","Y">>), Blanks, Lit("="), Blanks, Str(<<"F","a","l","s","e">>)>>)>>),
        message |-> "SSL certificate verification disabled",
        fix     |-> "Enable SSL certificate verification"] >>

\* _get_line_number numbering the lines from 0
get_line_number_zero_based(text, pos) == CountNewlines(text, pos)

\* SecurityAnalyzer._get_line_number (and CodeStyleAnalyzer._get_line_number):
\* pos is the 0-based offset match.start()
_get_line_number(text, pos) == CountNewlines(text, pos) + 1

\* code_snippet of a hardcoded-secret issue:
\* match.group().replace(match.group(1), "*" * len(match.group(1)))
RedactedSnippet(text, m) ==
    Replace(group0(text, m), group1(text, m), Stars(Len(group1(text, m))))

RECURSIVE IssuesOfMatches(_, _, _, _)
\* the issues a scan appends for the matches ms of one pattern, from index k on;
\* kwargs(m) are the keyword arguments of _create_issue for match m
IssuesOfMatches(ms, k, kwargs(_), issues) ==
    IF k > Len(ms) THEN Return(issues)
    ELSE Try(_create_issue(kwargs(ms[k])),
             LAMBDA made : IssuesOfMatches(ms, k + 1, kwargs, Append(issues, made)))

RECURSIVE SqlLoop(_, _, _, _)
SqlLoop(path, text, k, issues) ==
    IF k > Len(sql_injection_patterns) THEN Return(issues)
    ELSE Local(re_finditer(sql_injection_patterns[k], text, FALSE), LAMBDA matches :
         Try(IssuesOfMatches(matches, 1,
                 LAMBDA m :
                     [severity      |-> "error",
                      message       |-> "Potential SQL injection vulnerability detected",
                      file_path     |-> path,
                      line_number   |-> _get_line_number(text, m.start - 1),
                      code_snippet  |-> group0(text, m),
                      rule_name     |-> "sql_injection",
                      suggested_fix |-> "Use parameterized queries or an ORM"],
                 issues),
             LAMBDA found : SqlLoop(path, text, k + 1, found)))

_check_sql_injection(path, text) == SqlLoop(path, text, 1, <<>>)

RECURSIVE SecretsLoop(_, _, _, _)
SecretsLoop(path, text, k, issues) ==
    IF k > Len(secret_patterns) THEN Return(issues)
    ELSE Local(re_finditer(secret_patterns[k].pattern, text, TRUE), LAMBDA matches :
         Try(IssuesOfMatches(matches, 1,
                 LAMBDA m :
                     [severity      |-> "error",
                      message       |-> "Hardcoded " \o secret_patterns[k].secret_type \o " detected",
                      file_path     |-> path,
                      line_number   |-> _get_line_number(text, m.start - 1),
                      code_snippet  |-> RedactedSnippet(text, m),
                      rule_name     |-> "hardcoded_secret",
                      suggested_fix |-> "Use environment variables or a secure secret management system"],
                 issues),
             LAMBDA found : SecretsLoop(path, text, k + 1, found)))

_check_hardcoded_secrets(path, text) == SecretsLoop(path, text, 1, <<>>)

RECURSIVE InsecureLoop(_, _, _, _)
InsecureLoop(path, text, k, issues) ==
    IF k > Len(insecure_config_patterns) THEN Return(issues)
    ELSE Local(re_finditer(insecure_config_patterns[k].pattern, text, TRUE), LAMBDA matches :
         Try(IssuesOfMatches(matches, 1,
                 LAMBDA m :
                     [severity      |-> "error",
                      message       |-> insecure_config_patterns[k].message,
                      file_path     |-> path,
                      line_number   |-> _get_line_number(text, m.start - 1),
                      code_snippet  |-> group0(text, m),
                      rule_name     |-> "insecure_config_" \o insecure_config_patterns[k].check_name,
                      suggested_fix |-> insecure_config_patterns[k].fix],
                 issues),
             LAMBDA found : InsecureLoop(path, text, k + 1, found)))

_check_insecure_configs(path, text) == InsecureLoop(path, text, 1, <<>>)

-----------------------------------------------------------------------------
(* analyzers/code_style.py: naming conventions (the fourth scan by regular *)
(* expression; it shares the texts of the security scans below).           *)

Identifier(first) == Cat(<<Cls(first), Rep(Cls("alnum"), 0)>>)

\* the conventions of _check_naming_conventions, in dict order (the scan reads
\* only match.start(), so the groups are left out of the syntax trees)
naming_conventions ==
    << \* r"class\s+([a-z][a-zA-Z0-9]*)"
       [conv_type |-> "class",
        pattern |-> Cat(<<Str(<<"c","l","a","s","s">>), Rep(Cls("space"), 1), Identifier("lower")>>)],
       \* r"(def|function)\s+([A-Z][a-zA-Z0-9]*)"
       [conv_type |-> "method",
        pattern |-> Cat(<<Alt(<<Str(<<"d","e","f">>), Str(<<"f","u","n","c","t","i","o","n">>)>>),
                          Rep(Cls("space"), 1), Identifier("upper")>>)],
       \* r"([A-Z][a-zA-Z0-9]*)\s*="
       [conv_type |-> "variable",
        pattern |-> Cat(<<Identifier("upper"), Blanks, Lit("=")>>)] >>

RECURSIVE NamingLoop(_, _, _, _)
NamingLoop(path, text, k, issues) ==
    IF k > Len(naming_conventions) THEN Return(issues)
    ELSE Local(re_finditer(naming_conventions[k].pattern, text, FALSE), LAMBDA matches :
         Try(IssuesOfMatches(matches, 1,
                 LAMBDA m :
                     [severity      |-> "warning",
                      message       |-> "Invalid " \o naming_conventions[k].conv_type \o " name convention",
                      file_path     |-> path,
                      line_number   |-> _get_line_number(text, m.start - 1),
                      rule_name     |-> "naming_convention",
                      suggested_fix |-> "Follow " \o naming_conventions[k].conv_type \o " naming convention"],
                 issues),
             LAMBDA found : NamingLoop(path, text, k + 1, found)))

_check_naming_conventions(path, text) == NamingLoop(path, text, 1, <<>>)

-----------------------------------------------------------------------------
(* Inputs of the security scans.                                           *)

MaxSecurityLines == 2     \* longest file text drawn line by line for the security scans

\* api_key = "abcdef0123456789"
LineApiKey == <<"a","p","i","_","k","e","y"," ","="," ","\"","a","b","c","d","e","f","0","1","2","3","4","5","6","7","8","9","\"">>
\* password="password"
LinePasswordIsKey == <<"p","a","s","s","w","o","r","d","=","\"","p","a","s","s","w","o","r","d","\"">>
\* password: hunter42x 'hunter42x'
LinePasswordTwice == <<"p","a","s","s","w","o","r","d",":"," ","h","u","n","t","e","r","4","2","x"," ","'","h","u","n","t","e","r","4","2","x","'">>
\* SECRET = 'Sup3rS3cr3t!' 
LineSecretUpper == <<"S","E","C","R","E","T"," ","="," ","'","S","u","p","3","r","S","3","c","r","3","t","!","'"," ">>
\* token = "short"
LineTokenShort == <<"t","o","k","e","n"," ","="," ","\"","s","h","o","r","t","\"">>
\* auth-token='ab_cd-ef12'
LineTokenDash == <<"a","u","t","h","-","t","o","k","e","n","=","'","a","b","_","c","d","-","e","f","1","2","'">>
\* debug = True
LineDebug == <<"d","e","b","u","g"," ","="," ","T","r","u","e">>
\* x = ""
LineEmptyString == <<"x"," ","="," ","\"","\"">>
\* cursor.execute("SELECT %s" % name)
LineSqlFormat == <<"c","u","r","s","o","r",".","e","x","e","c","u","t","e","(","\"","S","E","L","E","C","T"," ","%","s","\""," ","%"," ","n","a","m","e",")">>
\* cursor.execute('a' + b)
LineSqlConcat == <<"c","u","r","s","o","r",".","e","x","e","c","u","t","e","(","'","a","'"," ","+"," ","b",")">>

\* password*23456782345678'*2345678'
LinePasswordStar == <<"p","a","s","s","w","o","r","d","*","2","3","4","5","6","7","8","2","3","4","5","6","7","8","'","*","2","3","4","5","6","7","8","'">>

SecurityLines ==
    {LineApiKey, LinePasswordIsKey, LinePasswordTwice, LineSecretUpper,
     LineTokenShort, LineTokenDash, LineDebug, LineEmptyString,
     LineSqlFormat, LineSqlConcat, LinePasswordStar}

SecurityContents == {JoinLines(ls) : ls \in SeqsUpTo(SecurityLines, MaxSecurityLines)}

InitSecurity ==
    /\ NoReview
    /\ NoExt
    /\ file_path = PathA
    /\ content \in SecurityContents
    /\ rule = None
    /\ coding_standards = None
    /\ out = NotCalled

CheckSqlInjection ==
    /\ out = NotCalled
    /\ out' = [op |-> "_check_sql_injection", ret |-> _check_sql_injection(file_path, content)]
    /\ UNCHANGED <<file_path, content, rule, coding_standards>>
    /\ UNCHANGED reviewVars
    /\ UNCHANGED extVars

CheckHardcodedSecrets ==
    /\ out = NotCalled
    /\ out' = [op |-> "_check_hardcoded_secrets",
               ret |-> _check_hardcoded_secrets(file_path, content)]
    /\ UNCHANGED <<file_path, content, rule, coding_standards>>
    /\ UNCHANGED reviewVars
    /\ UNCHANGED extVars

CheckInsecureConfigs ==
    /\ out = NotCalled
    /\ out' = [op |-> "_check_insecure_configs",
               ret |-> _check_insecure_configs(file_path, content)]
    /\ UNCHANGED <<file_path, content, rule, coding_standards>>
    /\ UNCHANGED reviewVars
    /\ UNCHANGED extVars

CheckNamingConventions ==
    /\ out = NotCalled
    /\ out' = [op |-> "_check_naming_conventions",
               ret |-> _check_naming_conventions(file_path, content)]
    /\ UNCHANGED <<file_path, content, rule, coding_standards>>
    /\ UNCHANGED reviewVars
    /\ UNCHANGED extVars

NextSecurity ==
    \/ CheckSqlInjection
    \/ CheckHardcodedSecrets
    \/ CheckInsecureConfigs
    \/ CheckNamingConventions

SpecSecurity == InitSecurity /\ [][NextSecurity]_vars


-----------------------------------------------------------------------------
(* Claims about the hardcoded-secret scan.                                 *)

RECURSIVE SecretMatchesFrom(_, _)
\* the matches of the secret patterns in text, pattern by pattern from index k on
SecretMatchesFrom(text, k) ==
    IF k > Len(secret_patterns) THEN <<>>
    ELSE re_finditer(secret_patterns[k].pattern, text, TRUE) \o SecretMatchesFrom(text, k + 1)

\* the matched text of m with exactly the span of capture group 1 starred
SpanRedacted(text, m) ==
    Slice(text, m.start, m.g[1] - 1) \o Stars(m.g[2] - m.g[1]) \o Slice(text, m.g[2], m.end - 1)

\* C1: for every match of a hardcoded-secret pattern the emitted code_snippet is
\* the matched text with exactly the span of capture group 1 replaced by '*'
\* repeated to the group's length, every character outside that span unchanged,
\* also when the captured value occurs elsewhere inside the matched text.
C1_RedactsOnlyCapturedSpan ==
    out.op = "_check_hardcoded_secrets" =>
        LET ms == SecretMatchesFrom(content, 1)
        IN  /\ out.ret.raised = "none"
            /\ Len(out.ret.value) = Len(ms)
            /\ \A k \in 1..Len(ms) :
                  out.ret.value[k].code_snippet = SpanRedacted(content, ms[k])


-----------------------------------------------------------------------------
(* analyzers/code_style.py: analyze.                                       *)

RECURSIVE StyleFilesLoop(_, _, _, _)
\* the for loop of CodeStyleAnalyzer.analyze from item f of diff_content on;
\* diff_content is the dict as the sequence of its (path, text) items
StyleFilesLoop(diff_content, standards, f, issues) ==
    IF f > Len(diff_content) THEN Return(issues)
    ELSE LET path == diff_content[f][1]
             text == diff_content[f][2]
         IN  Try(_check_method_length(path, text, standards), LAMBDA method_issues :
             Try(_check_naming_conventions(path, text), LAMBDA naming_issues :
             Try(_check_complexity(path, text, standards), LAMBDA complexity_issues :
                 StyleFilesLoop(diff_content, standards, f + 1,
                     issues \o method_issues \o naming_issues \o complexity_issues))))

\* analyze with an issue list shared with the security analyzer: it starts from
\* the issues the security task of the same review has found so far
style_analyze_sharing(diff_content, standards) ==
    StyleFilesLoop(diff_content, standards, 1,
        IF tasks["security"].state = "done" THEN tasks["security"].ret.value ELSE <<>>)

CodeStyleAnalyzer_analyze(diff_content, standards) ==
    StyleFilesLoop(diff_content, standards, 1, <<>>)

-----------------------------------------------------------------------------
(* analyzers/security.py: analyze.                                         *)

RECURSIVE SecurityFilesLoop(_, _, _)
\* the for loop of SecurityAnalyzer.analyze from item f of diff_content on
SecurityFilesLoop(diff_content, f, issues) ==
    IF f > Len(diff_content) THEN Return(issues)
    ELSE LET path == diff_content[f][1]
             text == diff_content[f][2]
         IN  Try(_check_sql_injection(path, text), LAMBDA sql_injection_issues :
             Try(_check_hardcoded_secrets(path, text), LAMBDA secret_issues :
             Try(_check_insecure_configs(path, text), LAMBDA config_issues :
                 SecurityFilesLoop(diff_content, f + 1,
                     issues \o sql_injection_issues \o secret_issues \o config_issues))))

\* analyze with an issue list that outlives the call (it starts from the issues
\* the previous call returned)
security_analyze_accumulating(diff_content) ==
    SecurityFilesLoop(diff_content, 1,
        IF runs["security"] = <<>> THEN <<>> ELSE runs["security"][Len(runs["security"])].value)

SecurityAnalyzer_analyze(diff_content) == SecurityFilesLoop(diff_content, 1, <<>>)

-----------------------------------------------------------------------------
(* utils/mcp.py: MCPClient.analyze_pull_request.                           *)

HttpOk == 200

RECURSIVE ConvertLoop(_, _, _)
\* the for loop of _convert_mcp_results from result k on
ConvertLoop(results, k, issues) ==
    IF k > Len(results) THEN Return(issues)
    ELSE Try(Issue([severity      |-> results[k].severity,
                    message       |-> results[k].message,
                    file_path     |-> results[k].file,
                    line_number   |-> results[k].line,
                    code_snippet  |-> results[k].code,
                    rule_name     |-> results[k].rule,
                    suggested_fix |-> results[k].suggestion]),
             LAMBDA made : ConvertLoop(results, k + 1, Append(issues, made)))

\* MCPClient._convert_mcp_results
_convert_mcp_results(mcp_results) == ConvertLoop(mcp_results.issues, 1, <<>>)

\* MCPClient.analyze_pull_request, given the status and the JSON body of the answer
analyze_pull_request(status, body) ==
    IF status # HttpOk THEN Raise("Exception")
    ELSE _convert_mcp_results(body)

-----------------------------------------------------------------------------
(* core/models.py: ReviewResult; core/agent.py: review_pr.                 *)

\* ReviewResult(**kwargs): summary is a str and review_time a float, neither Optional
ReviewResult(kwargs) ==
    IF kwargs.summary # None /\ kwargs.review_time # None
    THEN Return(kwargs)
    ELSE Raise("ValidationError")

\* PRReviewerAgent._generate_summary: the body is pass
_generate_summary(results) == None

\* asyncio.gather(...) that leaves out a failed task instead of propagating its exception
gather_isolating(ts, exc) ==
    IF \E a \in Analyzers : ts[a].state # "done" THEN Running
    ELSE Return(<< IF ts["architecture"].ret.raised = "none" THEN ts["architecture"].ret.value ELSE <<>>,
                   IF ts["style"].ret.raised = "none" THEN ts["style"].ret.value ELSE <<>>,
                   IF ts["security"].ret.raised = "none" THEN ts["security"].ret.value ELSE <<>> >>)

\* await asyncio.gather(architecture, style, security) without return_exceptions:
\* the first exception of a task is raised at once, the other tasks run on;
\* otherwise the results in argument order once all three tasks are done
gather(ts, exc) ==
    IF exc # "none" THEN Raise(exc)
    ELSE IF \E a \in Analyzers : ts[a].state # "done" THEN Running
    ELSE Return(<<ts["architecture"].ret.value, ts["style"].ret.value, ts["security"].ret.value>>)

-----------------------------------------------------------------------------
(* Inputs of review_pr.                                                    *)

MaxFiles == 2        \* most entries of diff_content

\* a clean text, one with a hardcoded secret, one nested deeper than the default maximum
ReviewTexts == {LineBody, LinePasswordIsKey, LineDeep20}
ReviewPaths == {PathA, PathB, PathService}

\* dicts of up to MaxFiles entries as the sequences of their items (keys distinct)
DiffContents ==
    {dc \in SeqsUpTo(ReviewPaths \X ReviewTexts, MaxFiles) :
        \A i, j \in 1..Len(dc) : i # j => dc[i][1] # dc[j][1]}

Keys(dc) == [i \in 1..Len(dc) |-> dc[i][1]]

\* files_changed lists the keys of diff_content, or one more file without an entry
ReviewContexts ==
    {[files_changed |-> Keys(dc) \o extra, diff_content |-> dc] :
        dc \in DiffContents, extra \in {<<>>, <<PathLibSrc>>}}

McpItem ==
    [severity |-> "warning", message |-> "remote finding", file |-> PathA, line |-> 1,
     code |-> <<"x">>, rule |-> "mcp_analysis", suggestion |-> "none"]

\* JSON bodies of the remote analysis; the last one carries an unknown severity
McpBodies ==
    {[issues |-> <<>>], [issues |-> <<McpItem>>],
     [issues |-> <<McpItem, [McpItem EXCEPT !.severity = "critical"]>>]}

HttpStatuses == {HttpOk, 500}

DefaultStandards ==
    [max_method_length |-> DefaultMaxMethodLength, max_nesting_depth |-> DefaultMaxNestingDepth]

InitReview ==
    /\ NoExt
    /\ file_path = <<>>
    /\ content = <<>>
    /\ rule = None
    /\ coding_standards = DefaultStandards
    /\ out = NotCalled
    /\ pr_context \in ReviewContexts
    /\ pc = "analyze_pull_request"
    /\ mcp = Running
    /\ tasks = [a \in Analyzers |-> [state |-> "unstarted", ret |-> Running]]
    /\ gather_exc = "none"
    /\ local_results = <<>>
    /\ all_issues = <<>>
    /\ summary = "unset"
    /\ review_out = Running

\* mcp_issues = await self.mcp_client.analyze_pull_request(pr_context); on return
\* the gather call starts the three analyzer tasks, on an exception review_pr
\* logs and re-raises it
AnalyzePullRequest ==
    /\ pc = "analyze_pull_request"
    /\ \E status \in HttpStatuses, body \in McpBodies :
          /\ mcp' = analyze_pull_request(status, body)
          /\ IF mcp'.raised = "none"
             THEN /\ pc' = "gather"
                  /\ tasks' = [a \in Analyzers |-> [state |-> "pending", ret |-> Running]]
                  /\ review_out' = review_out
             ELSE /\ pc' = "done"
                  /\ tasks' = tasks
                  /\ review_out' = Raise(mcp'.raised)
    /\ UNCHANGED <<pr_context, gather_exc, local_results, all_issues, summary>>
    /\ UNCHANGED scanVars
    /\ UNCHANGED extVars

\* self.architecture_analyzer.analyze(pr_context), over config.rules.architecture: the task runs in one step (analyze has no
\* await inside); the gather keeps the first exception of its tasks
RunArchitectureAnalyzer ==
    /\ tasks["architecture"].state = "pending"
    /\ \E ret \in {ArchitectureAnalyzer_analyze(pr_context.diff_content, ArchitectureRulesItems)} :
          /\ tasks' = [tasks EXCEPT !["architecture"] = [state |-> "done", ret |-> ret]]
          /\ gather_exc' = IF gather_exc = "none" /\ ret.raised # "none"
                           THEN ret.raised ELSE gather_exc
    /\ UNCHANGED <<pr_context, pc, mcp, local_results, all_issues, summary, review_out>>
    /\ UNCHANGED scanVars
    /\ UNCHANGED extVars

\* self.style_analyzer.analyze(pr_context): the task runs in one step (analyze has no
\* await inside); the gather keeps the first exception of its tasks
RunStyleAnalyzer ==
    /\ tasks["style"].state = "pending"
    /\ \E ret \in {CodeStyleAnalyzer_analyze(pr_context.diff_content, coding_standards)} :
          /\ tasks' = [tasks EXCEPT !["style"] = [state |-> "done", ret |-> ret]]
          /\ gather_exc' = IF gather_exc = "none" /\ ret.raised # "none"
                           THEN ret.raised ELSE gather_exc
    /\ UNCHANGED <<pr_context, pc, mcp, local_results, all_issues, summary, review_out>>
    /\ UNCHANGED scanVars
    /\ UNCHANGED extVars

\* self.security_analyzer.analyze(pr_context): the task runs in one step (analyze has no
\* await inside); the gather keeps the first exception of its tasks
RunSecurityAnalyzer ==
    /\ tasks["security"].state = "pending"
    /\ \E ret \in {SecurityAnalyzer_analyze(pr_context.diff_content)} :
          /\ tasks' = [tasks EXCEPT !["security"] = [state |-> "done", ret |-> ret]]
          /\ gather_exc' = IF gather_exc = "none" /\ ret.raised # "none"
                           THEN ret.raised ELSE gather_exc
    /\ UNCHANGED <<pr_context, pc, mcp, local_results, all_issues, summary, review_out>>
    /\ UNCHANGED scanVars
    /\ UNCHANGED extVars

\* the await on the gather finishes: local_results is bound, or the exception
\* reaches the except clause, which logs and re-raises it
Gather ==
    /\ pc = "gather"
    /\ gather(tasks, gather_exc) # Running
    /\ IF gather(tasks, gather_exc).raised = "none"
       THEN /\ local_results' = gather(tasks, gather_exc).value
            /\ pc' = "combine"
            /\ review_out' = review_out
       ELSE /\ local_results' = local_results
            /\ pc' = "done"
            /\ review_out' = Raise(gather(tasks, gather_exc).raised)
    /\ UNCHANGED <<pr_context, mcp, tasks, gather_exc, all_issues, summary>>
    /\ UNCHANGED scanVars
    /\ UNCHANGED extVars

\* all_issues = mcp_issues + [issue for result in local_results for issue in result]
Combine ==
    /\ pc = "combine"
    /\ all_issues' = mcp.value \o Concat(local_results)
    /\ pc' = "generate_summary"
    /\ UNCHANGED <<pr_context, mcp, tasks, gather_exc, local_results, summary, review_out>>
    /\ UNCHANGED scanVars
    /\ UNCHANGED extVars

\* summary = await self._generate_summary(all_issues)
GenerateSummary ==
    /\ pc = "generate_summary"
    /\ summary' = _generate_summary(all_issues)
    /\ pc' = "construct"
    /\ UNCHANGED <<pr_context, mcp, tasks, gather_exc, local_results, all_issues, review_out>>
    /\ UNCHANGED scanVars
    /\ UNCHANGED extVars

\* return ReviewResult(...); a validation error reaches the except clause,
\* which logs and re-raises it
ConstructResult ==
    /\ pc = "construct"
    /\ result_kwargs' =
           [issues               |-> all_issues,
            summary              |-> summary,
            review_time          |-> None,
            total_files_reviewed |-> Len(pr_context.files_changed),
            stats                |-> [mcp_issues     |-> Len(mcp.value),
                                      local_issues   |-> Len(all_issues) - Len(mcp.value),
                                      files_analyzed |-> Len(pr_context.files_changed)]]
    /\ review_out' = ReviewResult(result_kwargs')
    /\ pc' = "done"
    /\ UNCHANGED <<pr_context, mcp, tasks, gather_exc, local_results, all_issues, summary>>
    /\ UNCHANGED scanVars
    /\ UNCHANGED farVars

NextReview ==
    \/ AnalyzePullRequest
    \/ RunArchitectureAnalyzer
    \/ RunStyleAnalyzer
    \/ RunSecurityAnalyzer
    \/ Gather
    \/ Combine
    \/ GenerateSummary
    \/ ConstructResult

SpecReview == InitReview /\ [][NextReview]_vars


-----------------------------------------------------------------------------
(* Claims about review_pr.                                                 *)

\* the review has ended with a ReviewResult / with an exception
Returned == review_out.raised = "none"
Raised   == review_out.raised \notin {"none", "running"}

\* the issues an analyzer task returned (empty while it runs or when it raised)
IssuesOf(a) == tasks[a].ret.value

\* the analysis of the one-file context holding item f of diff_content
ArchitectureOfFile(f) ==
    ArchitectureAnalyzer_analyze(<<pr_context.diff_content[f]>>, ArchitectureRulesItems)
StyleOfFile(f) == CodeStyleAnalyzer_analyze(<<pr_context.diff_content[f]>>, coding_standards)
SecurityOfFile(f) == SecurityAnalyzer_analyze(<<pr_context.diff_content[f]>>)

\* C2: a review of a PR with files [a, b] whose remote analysis returned ends
\* with a review result whose issue list holds, after the remote issues, the
\* architecture issues of a, then of b, the style issues of a, then of b, the
\* security issues of a, then of b (category-major, file-minor).
C2_CategoryMajorFileMinor ==
    (pc = "done" /\ mcp.raised = "none" /\ Len(pr_context.diff_content) = 2) =>
        /\ Returned
        /\ review_out.value.issues =
               mcp.value \o ArchitectureOfFile(1).value \o ArchitectureOfFile(2).value
                         \o StyleOfFile(1).value \o StyleOfFile(2).value
                         \o SecurityOfFile(1).value \o SecurityOfFile(2).value

\* C3: a review whose remote analysis and three analyzers all returned ends with
\* a review result whose stats.local_issues equals len(issues) - stats.mcp_issues,
\* is non-negative and is the sum of the three analyzers' issue counts.
C3_LocalIssuesCount ==
    (/\ pc = "done"
     /\ mcp.raised = "none"
     /\ \A a \in Analyzers : tasks[a].ret.raised = "none") =>
        /\ Returned
        /\ review_out.value.stats.local_issues =
               Len(review_out.value.issues) - review_out.value.stats.mcp_issues
        /\ review_out.value.stats.local_issues >= 0
        /\ review_out.value.stats.local_issues =
               Len(IssuesOf("architecture")) + Len(IssuesOf("style")) + Len(IssuesOf("security"))

\* C4: a review yields a complete ReviewResult or fails entirely: review_pr goes
\* on past the gather, and returns a result, only if the remote analysis and all
\* three analyzers returned, the result then holding the issues of all of them;
\* once the remote analysis or an analyzer has raised, a finished review_pr has
\* raised and produced no ReviewResult.
C4_ReviewAllOrNothing ==
    /\ (pc \in {"combine", "generate_summary", "construct"} \/ Returned) =>
           /\ mcp.raised = "none"
           /\ \A a \in Analyzers : tasks[a].state = "done" /\ tasks[a].ret.raised = "none"
    /\ Returned =>
           review_out.value.issues =
               mcp.value \o IssuesOf("architecture") \o IssuesOf("style") \o IssuesOf("security")
    /\ (/\ pc = "done"
        /\ \/ mcp.raised \notin {"none", "running"}
           \/ \E a \in Analyzers : tasks[a].ret.raised \notin {"none", "running"}) =>
           Raised

\* the remote analysis returned an issue, the security analyzer returned issues,
\* the architecture analyzer raised: the review raised that exception
C4_Witness ==
    /\ pc = "done"
    /\ mcp.raised = "none" /\ Len(mcp.value) = 1
    /\ tasks["security"].state = "done" /\ tasks["security"].ret.raised = "none"
    /\ Len(IssuesOf("security")) >= 1
    /\ tasks["architecture"].ret.raised = "TypeError"
    /\ review_out = Raise("TypeError")


-----------------------------------------------------------------------------
(* Claims about the line numbers of the scans by regular expression.       *)

RECURSIVE MatchesOf(_, _, _, _)
\* the matches of the patterns ps in text, pattern by pattern from index k on
MatchesOf(ps, text, ic, k) ==
    IF k > Len(ps) THEN <<>>
    ELSE re_finditer(ps[k], text, ic) \o MatchesOf(ps, text, ic, k + 1)

\* the matches a scan walks through, in the order it walks through them
ScanMatches(op, text) ==
    IF op = "_check_sql_injection" THEN MatchesOf(sql_injection_patterns, text, FALSE, 1)
    ELSE IF op = "_check_hardcoded_secrets"
    THEN MatchesOf([k \in 1..Len(secret_patterns) |-> secret_patterns[k].pattern], text, TRUE, 1)
    ELSE IF op = "_check_insecure_configs"
    THEN MatchesOf([k \in 1..Len(insecure_config_patterns) |-> insecure_config_patterns[k].pattern],
                   text, TRUE, 1)
    ELSE MatchesOf([k \in 1..Len(naming_conventions) |-> naming_conventions[k].pattern],
                   text, FALSE, 1)

RegexScans ==
    {"_check_sql_injection", "_check_hardcoded_secrets", "_check_insecure_configs",
     "_check_naming_conventions"}

\* the newline characters of text strictly before the 1-based index i
NewlinesBefore(text, i) == Cardinality({j \in 1..(i - 1) : text[j] = "\n"})

\* C11: every issue emitted by the naming-convention scan and by the three
\* security scans has line_number equal to 1 plus the number of newline
\* characters strictly before the match's start offset; it is at least 1 and at
\* most 1 plus the number of newlines in the text.
C11_LineNumberCountsNewlines ==
    (out.op \in RegexScans /\ out.ret.raised = "none") =>
        LET ms == ScanMatches(out.op, content)
        IN  /\ Len(out.ret.value) = Len(ms)
            /\ \A k \in 1..Len(ms) :
                  /\ out.ret.value[k].line_number = 1 + NewlinesBefore(content, ms[k].start)
                  /\ out.ret.value[k].line_number >= 1
                  /\ out.ret.value[k].line_number <= 1 + NewlinesBefore(content, Len(content) + 1)

\* a scan emitted an issue for a match on the second line of a two-line text
C11_Witness ==
    /\ out.op \in RegexScans
    /\ out.ret.raised = "none"
    /\ \E k \in 1..Len(out.ret.value) : out.ret.value[k].line_number = 2


-----------------------------------------------------------------------------
(* The analyzers called again and again over one PR context.               *)

MaxRuns == 2         \* most analyze calls per analyzer

InitRerun ==
    /\ file_path = <<>>
    /\ content = <<>>
    /\ rule = None
    /\ coding_standards = DefaultStandards
    /\ out = NotCalled
    /\ pr_context \in ReviewContexts
    /\ pc = "idle"
    /\ mcp = Running
    /\ tasks = [a \in Analyzers |-> [state |-> "unstarted", ret |-> Running]]
    /\ gather_exc = "none"
    /\ local_results = <<>>
    /\ all_issues = <<>>
    /\ summary = "unset"
    /\ review_out = Running
    /\ NoExt

\* await self.architecture_analyzer.analyze(pr_context): the method assigns
\* nothing but its locals
AnalyzeArchitectureAgain ==
    /\ Len(runs["architecture"]) < MaxRuns
    /\ \E ret \in {ArchitectureAnalyzer_analyze(pr_context.diff_content, ArchitectureRulesItems)} :
          runs' = [runs EXCEPT !["architecture"] = Append(@, ret)]
    /\ UNCHANGED scanVars
    /\ UNCHANGED reviewVars
    /\ UNCHANGED result_kwargs
    /\ UNCHANGED exceptRerun

\* await self.style_analyzer.analyze(pr_context)
AnalyzeStyleAgain ==
    /\ Len(runs["style"]) < MaxRuns
    /\ \E ret \in {CodeStyleAnalyzer_analyze(pr_context.diff_content, coding_standards)} :
          runs' = [runs EXCEPT !["style"] = Append(@, ret)]
    /\ UNCHANGED scanVars
    /\ UNCHANGED reviewVars
    /\ UNCHANGED result_kwargs
    /\ UNCHANGED exceptRerun

\* await self.security_analyzer.analyze(pr_context)
AnalyzeSecurityAgain ==
    /\ Len(runs["security"]) < MaxRuns
    /\ \E ret \in {SecurityAnalyzer_analyze(pr_context.diff_content)} :
          runs' = [runs EXCEPT !["security"] = Append(@, ret)]
    /\ UNCHANGED scanVars
    /\ UNCHANGED reviewVars
    /\ UNCHANGED result_kwargs
    /\ UNCHANGED exceptRerun

NextRerun == AnalyzeArchitectureAgain \/ AnalyzeStyleAgain \/ AnalyzeSecurityAgain

SpecRerun == InitRerun /\ [][NextRerun]_vars

Constructed == pc = "done" /\ mcp.raised = "none" /\ gather_exc = "none"

\* C13: in every review result, total_files_reviewed and stats.files_analyzed
\* equal the number of files in diff_content, also when files_changed lists
\* files that have no diff_content entry.
C13_FilesReviewedCountsDiffContent ==
    Constructed =>
        /\ result_kwargs.total_files_reviewed = Len(pr_context.diff_content)
        /\ result_kwargs.stats.files_analyzed = Len(pr_context.diff_content)


-----------------------------------------------------------------------------
(* utils/github.py: fetch_pr_details; utils/mcp.py: MCPClient.get_pr_context; *)
(* core/models.py: PRContext.                                               *)

\* a value tagged with its Python type
PyDict(items) == [type |-> "dict", value |-> items]
PyStr(text) == [type |-> "str", value |-> text]

\* PRContext(**kwargs): diff_content is declared Dict[str, str]; the fields
\* copied from pr_data one by one are left out
PRContext(kwargs) ==
    IF kwargs.diff_content.type = "dict"
    THEN Return([files_changed |-> kwargs.files_changed,
                 diff_content  |-> kwargs.diff_content])
    ELSE Raise("ValidationError")

\* d[key] = value on a dict kept as a sequence of <<key, value>> in insertion order
SetItem(items, key, value) ==
    IF \E i \in 1..Len(items) : items[i][1] = key
    THEN [i \in 1..Len(items) |-> IF items[i][1] = key THEN <<key, value>> ELSE items[i]]
    ELSE Append(items, <<key, value>>)

\* [f["filename"] for f in files_data]
RECURSIVE Filenames(_)
Filenames(fs) ==
    IF fs = <<>> THEN <<>> ELSE <<Head(fs).filename>> \o Filenames(Tail(fs))

\* {f["filename"]: await fetch_file_content(session, repo, f["raw_url"]) for f in files_data}
RECURSIVE RawContents(_, _)
RawContents(fs, items) ==
    IF fs = <<>> THEN items
    ELSE RawContents(Tail(fs), SetItem(items, Head(fs).filename, Head(fs).raw))

\* fetch_pr_details: the statuses are not looked at; an error answer is a JSON
\* object without "base", and iterating one yields its keys
fetch_pr_details(statuses, fs) ==
    IF statuses.pr # HttpOk THEN Raise("KeyError")
    ELSE IF statuses.files # HttpOk THEN Raise("TypeError")
    ELSE PRContext([files_changed |-> Filenames(fs),
                    diff_content  |-> PyDict(RawContents(fs, <<>>))])

\* the loop of get_pr_context: for a file with a non-empty patch, diff_content
\* grows by a header line and the patch
RECURSIVE PatchText(_, _)
PatchText(fs, diff_content) ==
    IF fs = <<>> THEN diff_content
    ELSE IF Head(fs).patch # <<>>
         THEN PatchText(Tail(fs),
                  diff_content \o <<"d","i","f","f"," ","-","-","g","i","t"," ","a","/">> \o Head(fs).filename
                               \o <<" ","b","/">> \o Head(fs).filename \o <<"\n">>
                               \o Head(fs).patch \o <<"\n">>)
         ELSE PatchText(Tail(fs), diff_content)

\* MCPClient.get_pr_context
get_pr_context(statuses, fs) ==
    IF statuses.pr # HttpOk \/ statuses.files # HttpOk THEN Raise("Exception")
    ELSE PRContext([files_changed |-> Filenames(fs),
                    diff_content  |-> PyStr(PatchText(fs, <<>>))])

\* ---- inputs

MaxFilesData == 2

\* an entry of the files listing: the patch is <<>> when GitHub sends none
FileEntries ==
    [filename : {PathA, PathB}, patch : {<<>>, LineBody}, raw : {LineBody, LineDeep20}]

InitContext ==
    /\ file_path = <<>>
    /\ content = <<>>
    /\ rule = None
    /\ coding_standards = DefaultStandards
    /\ out = NotCalled
    /\ NoReview
    /\ result_kwargs = NoKwargs
    /\ NoPending
    /\ NoLoops
    /\ NoRerun
    /\ NoConfig
    /\ NoSeverity
    /\ NoAgent
    /\ http \in [pr : HttpStatuses, files : HttpStatuses]
    /\ files_data \in SeqsUpTo(FileEntries, MaxFilesData)
    /\ ctx_out = [op |-> "none", ret |-> Running]

FetchPrDetails ==
    /\ ctx_out.op = "none"
    /\ ctx_out' = [op |-> "fetch_pr_details", ret |-> fetch_pr_details(http, files_data)]
    /\ UNCHANGED <<http, files_data>>
    /\ UNCHANGED <<scanVars, reviewVars, result_kwargs>>
    /\ UNCHANGED exceptContext

GetPrContext ==
    /\ ctx_out.op = "none"
    /\ ctx_out' = [op |-> "get_pr_context", ret |-> get_pr_context(http, files_data)]
    /\ UNCHANGED <<http, files_data>>
    /\ UNCHANGED <<scanVars, reviewVars, result_kwargs>>
    /\ UNCHANGED exceptContext

NextContext == FetchPrDetails \/ GetPrContext

SpecContext == InitContext /\ [][NextContext]_vars

\* the requests of the provider called were answered with 200
Answered == ctx_out.op # "none" /\ http.pr = HttpOk /\ http.files = HttpOk

\* C14: every PR-context provider (fetch_pr_details, MCPClient.get_pr_context)
\* whose requests are answered produces a PRContext whose diff_content is a
\* mapping with every key an element of files_changed.
C14_DiffContentKeysAreFilesChanged ==
    Answered =>
        /\ ctx_out.ret.raised = "none"
        /\ ctx_out.ret.value.diff_content.type = "dict"
        /\ \A i \in 1..Len(ctx_out.ret.value.diff_content.value) :
              \E j \in 1..Len(ctx_out.ret.value.files_changed) :
                 ctx_out.ret.value.diff_content.value[i][1] = ctx_out.ret.value.files_changed[j]

\* the part of C14 that fetch_pr_details meets
FetchPrDetailsKeysAreFilesChanged ==
    (Answered /\ ctx_out.op = "fetch_pr_details") =>
        /\ ctx_out.ret.raised = "none"
        /\ ctx_out.ret.value.diff_content.type = "dict"
        /\ \A i \in 1..Len(ctx_out.ret.value.diff_content.value) :
              \E j \in 1..Len(ctx_out.ret.value.files_changed) :
                 ctx_out.ret.value.diff_content.value[i][1] = ctx_out.ret.value.files_changed[j]


-----------------------------------------------------------------------------
(* core/config.py: the rule models, get_default_config, deep_merge,        *)
(* load_config.  Of the configuration the architecture rule catalog is     *)
(* modelled; a rule entry is a dict from field names to values.            *)

\* r"repository\.|EntityManager\."
PatRepository ==
    Regex("repository\\.|EntityManager\\.",
          Alt(<<Cat(<<Str(<<"r","e","p","o","s","i","t","o","r","y">>), Lit(".")>>), Cat(<<Str(<<"E","n","t","i","t","y","M","a","n","a","g","e","r">>), Lit(".")>>)>>))
\* r"from ..* import"
PatFromImport ==
    Regex("from ..* import",
          Cat(<<Str(<<"f","r","o","m"," ">>), Cls("dot"), Rep(Cls("dot"), 0), Str(<<" ","i","m","p","o","r","t">>)>>))
\* r"new\s+[A-Z][a-zA-Z0-9]*\("
PatNew ==
    Regex("new\\s+[A-Z][a-zA-Z0-9]*\\(",
          Cat(<<Str(<<"n","e","w">>), Rep(Cls("space"), 1), Cls("upper"), Rep(Cls("alnum"), 0), Lit("(")>>))
\* "*/controller/*" and "*/core/*": globs, which re rejects with "nothing to repeat"
ScopeGlobController == BadRegex("*/controller/*")
ScopeGlobCore == BadRegex("*/core/*")

\* get_default_config()["rules"]["architecture"]
DefaultArchitecture ==
    [layer_violations |->
        << [name |-> Text("no_db_in_controller"), pattern |-> PatRepository,
            scope |-> ScopeGlobController,
            message |-> Text("Direct database access in controller layer")],
           [name |-> Text("no_view_in_service"), pattern |-> PatRender,
            scope |-> ScopeGlobService, message |-> Text("View logic in service layer")] >>,
     dependency_rules |->
        << [name |-> Text("no_circular_deps"), pattern |-> PatImport,
            message |-> Text("Avoid parent directory imports")],
           [name |-> Text("no_cross_module_deps"), pattern |-> PatFromImport,
            scope |-> ScopeGlobCore,
            message |-> Text("Core modules should not depend on feature modules")] >>,
     pattern_violations |->
        << [name |-> Text("use_dependency_injection"), pattern |-> PatNew,
            message |-> Text("Use dependency injection instead of direct instantiation")],
           [name |-> Text("no_static_utils"), pattern |-> PatStatic,
            message |-> Text("Prefer instance methods over static utilities")] >>]

\* deep_merge(target, source) on the architecture dict: its values are lists,
\* so a key of the source replaces the value of the target
deep_merge(target, source) ==
    [k \in DOMAIN target \cup DOMAIN source |->
        IF k \in DOMAIN source THEN source[k] ELSE target[k]]

\* the value is a Python str
IsStr(v) == v.kind \in {"str", "text"}

\* pydantic's validation of one rule entry: the required fields are there and
\* are strings, an optional field is a string or None and defaults to None
RuleModel(entry, required, optional) ==
    IF /\ required \subseteq DOMAIN entry
       /\ \A f \in required : IsStr(entry[f])
       /\ \A f \in optional \cap DOMAIN entry : IsStr(entry[f]) \/ entry[f].kind = "none"
    THEN Return([f \in required \cup optional |->
                    IF f \in DOMAIN entry THEN entry[f] ELSE NoneValue])
    ELSE Raise("ValidationError")

LayerViolation(entry) == RuleModel(entry, {"name", "pattern", "scope", "message"}, {})
DependencyRule(entry) == RuleModel(entry, {"name", "pattern", "message"}, {"scope"})
PatternViolation(entry) == RuleModel(entry, {"name", "pattern", "message"}, {})

\* a List[...] field: every entry validated, the first failure raised
RECURSIVE LayerViolations(_, _, _)
LayerViolations(entries, k, models) ==
    IF k > Len(entries) THEN Return(models)
    ELSE Try(LayerViolation(entries[k]),
             LAMBDA m : LayerViolations(entries, k + 1, Append(models, m)))

RECURSIVE DependencyRules(_, _, _)
DependencyRules(entries, k, models) ==
    IF k > Len(entries) THEN Return(models)
    ELSE Try(DependencyRule(entries[k]),
             LAMBDA m : DependencyRules(entries, k + 1, Append(models, m)))

RECURSIVE PatternViolations(_, _, _)
PatternViolations(entries, k, models) ==
    IF k > Len(entries) THEN Return(models)
    ELSE Try(PatternViolation(entries[k]),
             LAMBDA m : PatternViolations(entries, k + 1, Append(models, m)))

\* ArchitectureRules(**architecture), as AgentConfig(**config) validates it
ArchitectureRules(architecture) ==
    Try(LayerViolations(architecture.layer_violations, 1, <<>>), LAMBDA lv :
    Try(DependencyRules(architecture.dependency_rules, 1, <<>>), LAMBDA dr :
    Try(PatternViolations(architecture.pattern_violations, 1, <<>>), LAMBDA pv :
        Return([layer_violations |-> lv, dependency_rules |-> dr,
                pattern_violations |-> pv]))))

\* load_config: a missing file leaves the defaults, a file that is not YAML
\* re-raises yaml.YAMLError, an empty file makes safe_load return None and
\* deep_merge fail on None.items()
load_config(yaml) ==
    IF yaml.kind = "missing" THEN ArchitectureRules(DefaultArchitecture)
    ELSE IF yaml.kind = "invalid" THEN Raise("YAMLError")
    ELSE IF yaml.kind = "empty" THEN Raise("AttributeError")
    ELSE ArchitectureRules(deep_merge(DefaultArchitecture, yaml.architecture))


\* ---- inputs

MaxRules == 2

\* a pattern re rejects: r"render(" has an unterminated group
PatUnclosed == BadRegex("render(")

\* entries of layer_violations in a settings file: complete, with a glob scope,
\* with a pattern that does not compile, without message, with scope null
LayerEntries ==
    {RuleService.d, RuleServiceGlob.d,
     [RuleService.d EXCEPT !.pattern = PatUnclosed],
     [name |-> Text("no_view_in_service"), pattern |-> PatRender, scope |-> ScopeService],
     [RuleService.d EXCEPT !.scope = NoneValue]}

\* entries of dependency_rules: without scope, with a glob scope, without pattern
DependencyEntries ==
    {RuleImportNoScope.d, DefaultArchitecture.dependency_rules[2],
     [name |-> Text("no_circular_deps"), message |-> Text("Avoid parent directory imports")]}

\* the settings files: none, not YAML, empty, or one that sets rule lists
YamlConfigs ==
    {[kind |-> "missing"], [kind |-> "invalid"], [kind |-> "empty"]}
    \cup {[kind |-> "dict", architecture |-> [layer_violations |-> lv]] :
             lv \in SeqsUpTo(LayerEntries, MaxRules)}
    \cup {[kind |-> "dict", architecture |-> [layer_violations |-> lv, dependency_rules |-> dr]] :
             lv \in SeqsUpTo(LayerEntries, MaxRules), dr \in SeqsUpTo(DependencyEntries, 1)}

InitConfig ==
    /\ file_path = <<>>
    /\ content = <<>>
    /\ rule = None
    /\ coding_standards = DefaultStandards
    /\ out = NotCalled
    /\ NoReview
    /\ result_kwargs = NoKwargs
    /\ NoPending
    /\ NoLoops
    /\ NoRerun
    /\ NoContext
    /\ NoSeverity
    /\ NoAgent
    /\ yaml_config \in YamlConfigs
    /\ config_out = Running

LoadConfig ==
    /\ config_out.raised = "running"
    /\ config_out' = load_config(yaml_config)
    /\ UNCHANGED yaml_config
    /\ UNCHANGED <<scanVars, reviewVars, result_kwargs>>
    /\ UNCHANGED exceptConfig

NextConfig == LoadConfig

SpecConfig == InitConfig /\ [][NextConfig]_vars

\* the rules of a loaded catalog, of its three lists
LoadedRules(catalog) ==
    UNION {{catalog[key][k] : k \in 1..Len(catalog[key])} : key \in DOMAIN catalog}

\* re.compile accepts the pattern and, where there is one, the scope
Compiles(r) ==
    /\ r.pattern.compiles
    /\ "scope" \in DOMAIN r => (r.scope.kind = "none" \/ r.scope.compiles)

\* C15: loading the rule catalog fails when a rule entry lacks a required field
\* or a pattern or scope does not compile: every catalog load_config returns,
\* the built-in default included, holds only complete rules whose pattern and
\* scope compile.
C15_LoadedCatalogCompiles ==
    config_out.raised = "none" =>
        \A r \in LoadedRules(config_out.value) :
            /\ {"name", "pattern", "message"} \subseteq DOMAIN r
            /\ Compiles(r)

\* the part of C15 that load_config meets: a catalog with an entry lacking a
\* required field is not loaded
LoadedCatalogComplete ==
    config_out.raised = "none" =>
        /\ \A k \in 1..Len(config_out.value.layer_violations) :
              /\ DOMAIN config_out.value.layer_violations[k] = {"name", "pattern", "scope", "message"}
              /\ \A f \in {"name", "pattern", "scope", "message"} :
                    IsStr(config_out.value.layer_violations[k][f])
        /\ \A k \in 1..Len(config_out.value.dependency_rules) :
              \A f \in {"name", "pattern", "message"} :
                 IsStr(config_out.value.dependency_rules[k][f])
        /\ (yaml_config.kind = "dict" =>
               \A k \in 1..Len(yaml_config.architecture.layer_violations) :
                  {"name", "pattern", "scope", "message"}
                      \subseteq DOMAIN yaml_config.architecture.layer_violations[k])


-----------------------------------------------------------------------------
(* core/models.py: class IssueSeverity(str, Enum).  The members are strs,  *)
(* and the class defines no comparison: <, <=, >, >= are those of str, on  *)
(* the member values.                                                      *)

\* IssueSeverity.ERROR.value, ...
SeverityValue ==
    [error      |-> <<"e","r","r","o","r">>,
     warning    |-> <<"w","a","r","n","i","n","g">>,
     info       |-> <<"i","n","f","o">>,
     suggestion |-> <<"s","u","g","g","e","s","t","i","o","n">>]

\* ord(c) for a lower-case letter
ord(c) == 96 + CHOOSE i \in DOMAIN LowerSeq : LowerSeq[i] = c

\* str.__lt__: by code point, a proper prefix first
RECURSIVE str_lt(_, _)
str_lt(s, t) ==
    IF t = <<>> THEN FALSE
    ELSE IF s = <<>> THEN TRUE
    ELSE IF Head(s) # Head(t) THEN ord(Head(s)) < ord(Head(t))
    ELSE str_lt(Tail(s), Tail(t))

\* a comparison operator applied to two members
compare(op, a, b) ==
    CASE op = "<"  -> str_lt(SeverityValue[a], SeverityValue[b])
      [] op = ">"  -> str_lt(SeverityValue[b], SeverityValue[a])
      [] op = "<=" -> ~str_lt(SeverityValue[b], SeverityValue[a])
      [] op = ">=" -> ~str_lt(SeverityValue[a], SeverityValue[b])
      [] op = "==" -> a = b
      [] op = "!=" -> a # b

\* list.insert keeping the list descending and equal members in their order
RECURSIVE InsertDescending(_, _)
InsertDescending(sorted_, x) ==
    IF sorted_ = <<>> THEN <<x>>
    ELSE IF compare("<", Head(sorted_), x) THEN <<x>> \o sorted_
    ELSE <<Head(sorted_)>> \o InsertDescending(Tail(sorted_), x)

\* sorted(xs, reverse=True): stable, by < only
RECURSIVE sorted_reverse(_, _)
sorted_reverse(xs, acc) ==
    IF xs = <<>> THEN acc
    ELSE sorted_reverse(Tail(xs), InsertDescending(acc, Head(xs)))

\* ---- inputs

MaxSeverities == 3

CompareOps == {"<", ">", "<=", ">=", "==", "!="}

InitSeverity ==
    /\ file_path = <<>>
    /\ content = <<>>
    /\ rule = None
    /\ coding_standards = DefaultStandards
    /\ out = NotCalled
    /\ NoReview
    /\ result_kwargs = NoKwargs
    /\ NoPending
    /\ NoLoops
    /\ NoRerun
    /\ NoContext
    /\ NoConfig
    /\ NoAgent
    /\ severities \in SeqsUpTo(IssueSeverity, MaxSeverities)
    /\ cmp_out = [op |-> "none", result |-> FALSE, order |-> <<>>]

\* severities[0] op severities[1]
Compare ==
    /\ cmp_out.op = "none"
    /\ Len(severities) >= 2
    /\ \E op \in CompareOps :
          cmp_out' = [op |-> op, result |-> compare(op, severities[1], severities[2]),
                      order |-> <<>>]
    /\ UNCHANGED severities
    /\ UNCHANGED <<scanVars, reviewVars, result_kwargs>>
    /\ UNCHANGED exceptSeverity

\* sorted(severities, reverse=True)
SortDescending ==
    /\ cmp_out.op = "none"
    /\ cmp_out' = [op |-> "sorted", result |-> FALSE,
                   order |-> sorted_reverse(severities, <<>>)]
    /\ UNCHANGED severities
    /\ UNCHANGED <<scanVars, reviewVars, result_kwargs>>
    /\ UNCHANGED exceptSeverity

NextSeverity == Compare \/ SortDescending

SpecSeverity == InitSeverity /\ [][NextSeverity]_vars

\* the rank the order error > warning > info > suggestion gives a member
SeverityRank == [error |-> 4, warning |-> 3, info |-> 2, suggestion |-> 1]

\* C16: IssueSeverity is totally ordered error > warning > info > suggestion,
\* and the comparison of the type realizes that order: a > b, a < b, a >= b and
\* a <= b answer as the ranks do, and sorting descending puts the ranks in
\* descending order.
C16_SeverityOrder ==
    /\ cmp_out.op = ">"  => cmp_out.result = (SeverityRank[severities[1]] > SeverityRank[severities[2]])
    /\ cmp_out.op = "<"  => cmp_out.result = (SeverityRank[severities[1]] < SeverityRank[severities[2]])
    /\ cmp_out.op = ">=" => cmp_out.result = (SeverityRank[severities[1]] >= SeverityRank[severities[2]])
    /\ cmp_out.op = "<=" => cmp_out.result = (SeverityRank[severities[1]] <= SeverityRank[severities[2]])
    /\ cmp_out.op = "sorted" =>
          \A i, j \in 1..Len(cmp_out.order) :
             i < j => SeverityRank[cmp_out.order[i]] >= SeverityRank[cmp_out.order[j]]

\* what the comparison of the type is: a total order on the members, the order
\* of their values as strings (warning > suggestion > info > error)
SeverityOrderIsOfStrings ==
    /\ cmp_out.op = ">" =>
          cmp_out.result = (<<severities[1], severities[2]>> \in
              {<<"warning", "suggestion">>, <<"warning", "info">>, <<"warning", "error">>,
               <<"suggestion", "info">>, <<"suggestion", "error">>, <<"info", "error">>})
    /\ cmp_out.op = "sorted" =>
          /\ Len(cmp_out.order) = Len(severities)
          /\ \A i, j \in 1..Len(cmp_out.order) :
                i < j => ~compare("<", cmp_out.order[i], cmp_out.order[j])


\* ---------------------------------------------------------------------------
\* C17: the analyzer tasks of one review do not influence each other
\* ---------------------------------------------------------------------------

\* what an analyzer makes of the PR on its own
AnalysisOf(a) ==
    CASE a = "architecture" -> ArchitectureAnalyzer_analyze(pr_context.diff_content, ArchitectureRulesItems)
      [] a = "style"        -> CodeStyleAnalyzer_analyze(pr_context.diff_content, coding_standards)
      [] a = "security"     -> SecurityAnalyzer_analyze(pr_context.diff_content)

-----------------------------------------------------------------------------
(* core/agent.py: start, stop, _monitor_prs, get_status; main.py:          *)
(* github_webhook.                                                         *)

\* review_pr as one call: the remote analysis, then the three analyzers, which
\* run to their end one after the other as analyze awaits nothing
review_pr(ctx, status, body) ==
    Try(analyze_pull_request(status, body), LAMBDA mcp_issues :
    Try(ArchitectureAnalyzer_analyze(ctx.diff_content.value, ArchitectureRulesItems), LAMBDA architecture :
    Try(CodeStyleAnalyzer_analyze(ctx.diff_content.value, DefaultStandards), LAMBDA style :
    Try(SecurityAnalyzer_analyze(ctx.diff_content.value), LAMBDA security :
        ReviewResult(
            [issues               |-> mcp_issues \o architecture \o style \o security,
             summary              |-> _generate_summary(mcp_issues \o architecture \o style \o security),
             review_time          |-> None,
             total_files_reviewed |-> Len(ctx.files_changed),
             stats                |-> [mcp_issues     |-> Len(mcp_issues),
                                       local_issues   |-> Len(architecture) + Len(style) + Len(security),
                                       files_analyzed |-> Len(ctx.files_changed)]])))))

\* MCPClient.post_review
post_review(review_result, status) ==
    IF status # HttpOk THEN Raise("Exception") ELSE Return(None)

\* get_status: self.stats is a dict, and .prs_reviewed an attribute access
get_status(is_running, agent_stats) ==
    IF agent_stats.type = "dict"
    THEN Raise("AttributeError")
    ELSE Return([running |-> is_running, prs_reviewed |-> agent_stats.value.prs_reviewed,
                 issues_found |-> agent_stats.value.issues_found])

\* hmac.new(secret, msg=body, digestmod=hashlib.sha256).hexdigest() behind
\* "sha256=": the digest stands for its key and message, two digests are equal
\* exactly when both agree
ExpectedSignature(secret, body) == [kind |-> "sha256", key |-> secret, msg |-> body.id]

\* config.repository_list
MonitoredRepositories == {"owner/repo"}

\* config.integrations.github.webhook_events
WebhookEvents == {"pull_request", "pull_request_review"}

Response(status, detail, parsed, agent_called) ==
    [status |-> status, detail |-> detail, parsed |-> parsed, agent_called |-> agent_called]

\* github_webhook from the parsing of the payload on; agent.handle_github_event
\* is not defined by PRReviewerAgent, the call raises AttributeError
HandleEvent(body, event_type) ==
    IF body.kind = "invalid" THEN Response(400, "Invalid JSON payload", FALSE, FALSE)
    ELSE IF event_type \notin WebhookEvents THEN Response(200, "ignored", TRUE, FALSE)
    ELSE IF body.kind = "scalar" THEN Response(500, "Internal server error", TRUE, FALSE)
    ELSE IF body.repository # "" /\ body.repository \notin MonitoredRepositories
    THEN Response(200, "ignored", TRUE, FALSE)
    ELSE Response(500, "Error processing webhook", TRUE, TRUE)

\* github_webhook: the signature is verified when
\* config.integrations.github.webhook_secret is set; hmac.compare_digest raises
\* TypeError on a str that is not ASCII, which the last except clause turns into 500
github_webhook(secrets, signature, body, event_type) ==
    IF secrets.integrations \notin {None, ""}
    THEN IF signature.kind \in {"absent", "empty"}
         THEN Response(400, "No signature provided", FALSE, FALSE)
         ELSE IF signature.kind = "nonascii"
         THEN Response(500, "Internal server error", FALSE, FALSE)
         ELSE IF signature # ExpectedSignature(secrets.integrations, body)
         THEN Response(401, "Invalid signature", FALSE, FALSE)
         ELSE HandleEvent(body, event_type)
    ELSE HandleEvent(body, event_type)


HttpNotFound == 404

\* the all_prs.append({...}) of one answer: one dictionary per pull of the JSON
\* list, in the list's order, tagged with the repository asked
PrDicts(repo, pulls) == [k \in 1..Len(pulls) |-> [number |-> pulls[k], repository |-> repo]]

RECURSIVE for_repo_in_repositories(_, _, _, _)
\* the loop treating 404 as every other failure
for_repo_failing_on_404(repositories, answers, i, all_prs) ==
    IF i > Len(repositories) THEN Return(all_prs)
    ELSE IF answers[i].status # HttpOk THEN Raise("Exception")
    ELSE for_repo_in_repositories(repositories, answers, i + 1,
                                  all_prs \o PrDicts(repositories[i], answers[i].pulls))

\* for repo in repositories: from the i-th repository on, with all_prs collected
\* so far; answers[i] is the answer to the i-th request
for_repo_in_repositories(repositories, answers, i, all_prs) ==
    IF i > Len(repositories) THEN Return(all_prs)
    ELSE IF answers[i].status = HttpNotFound
    THEN for_repo_in_repositories(repositories, answers, i + 1, all_prs)
    ELSE IF answers[i].status # HttpOk THEN Raise("Exception")
    ELSE for_repo_in_repositories(repositories, answers, i + 1,
                                  all_prs \o PrDicts(repositories[i], answers[i].pulls))

get_pending_reviews(repositories, answers) ==
    for_repo_in_repositories(repositories, answers, 1, <<>>)

\* ---- inputs

MaxCeiling == 2
MaxPending == 2
MaxPolls == 2

\* the open pulls a repository lists, most recently updated first
PullLists == {[k \in 1..n |-> 10 - k] : n \in 0..MaxPending}

PullAnswers == [status : {HttpOk, HttpNotFound, 500}, pulls : PullLists]

Secrets == {None, "s3cret"}

\* request bodies: a pull-request event of a monitored repository, one of
\* another repository, a JSON object without the key repository, a JSON number,
\* and bytes that are not JSON
Bodies ==
    {[id |-> "monitored", kind |-> "object", repository |-> "owner/repo"],
     [id |-> "unmonitored", kind |-> "object", repository |-> "other/repo"],
     [id |-> "norepo", kind |-> "object", repository |-> ""],
     [id |-> "number", kind |-> "scalar", repository |-> ""],
     [id |-> "garbage", kind |-> "invalid", repository |-> ""]}

\* values of X-Hub-Signature-256: absent, empty, a signature under some key of
\* some body, a digest without the sha256= prefix, a value that is not ASCII
Signatures ==
    {[kind |-> "absent", key |-> "", msg |-> ""],
     [kind |-> "empty", key |-> "", msg |-> ""],
     [kind |-> "nonascii", key |-> "", msg |-> ""]}
    \cup [kind : {"sha256", "bare"}, key : {"s3cret", "guess"}, msg : {"monitored", "norepo", "garbage"}]

EventTypes == {"pull_request", "push", None}

InitAgent ==
    /\ file_path = <<>>
    /\ content = <<>>
    /\ rule = None
    /\ coding_standards = DefaultStandards
    /\ out = NotCalled
    /\ NoReview
    /\ result_kwargs = NoKwargs
    /\ NoPending
    /\ NoLoops
    /\ NoRerun
    /\ NoContext
    /\ NoConfig
    /\ NoSeverity
    /\ concurrent_reviews \in 0..MaxCeiling
    /\ webhook_secret = [integrations |-> None, env |-> None]
    /\ AgentConstructed

\* agent.start(): the flag, and the monitoring task is created
Start ==
    /\ monitor.pc = "unstarted"
    /\ running' = TRUE
    /\ monitor' = [monitor EXCEPT !.pc = "check"]
    /\ UNCHANGED <<concurrent_reviews, webhook_secret, in_progress, stats, completed,
                   status_out, webhook_out>>
    /\ UNCHANGED <<scanVars, reviewVars, result_kwargs>>
    /\ UNCHANGED exceptAgent

\* agent.stop()
Stop ==
    /\ running
    /\ running' = FALSE
    /\ UNCHANGED <<concurrent_reviews, webhook_secret, monitor, in_progress, stats, completed,
                   status_out, webhook_out>>
    /\ UNCHANGED <<scanVars, reviewVars, result_kwargs>>
    /\ UNCHANGED exceptAgent

\* the repositories of config.monitored_repositories, split at the commas
MonitoredRepositoryList == <<"owner/repo">>

\* the loop body with a failed poll ending the task
while_running_dying(m, is_running, ret) ==
    IF ~is_running \/ ret.raised # "none" THEN [m EXCEPT !.pc = "ended"]
    ELSE [m EXCEPT !.pc = IF ret.value = <<>> THEN "sleeping" ELSE "next",
                   !.prs = ret.value, !.pending = Len(ret.value), !.log = <<>>,
                   !.polls = @ + 1, !.polled = "none",
                   !.slept = IF ret.value = <<>> THEN "polling_interval" ELSE @]

\* the loop body polling whatever self.running says
while_running_forever(m, is_running, ret) ==
    IF ret.raised # "none"
    THEN [m EXCEPT !.pc = "sleeping", !.prs = <<>>, !.pending = 0, !.log = <<>>,
                   !.polls = @ + 1, !.polled = ret.raised, !.slept = "error_retry_interval"]
    ELSE [m EXCEPT !.pc = IF ret.value = <<>> THEN "sleeping" ELSE "next",
                   !.prs = ret.value, !.pending = Len(ret.value), !.log = <<>>,
                   !.polls = @ + 1, !.polled = "none",
                   !.slept = IF ret.value = <<>> THEN "polling_interval" ELSE @]

\* while self.running: the task ends when running is false; otherwise prs is
\* what get_pending_reviews returned, and a poll that raised is logged and
\* slept over for error_retry_interval; with no PR the cycle is over and the
\* task sleeps for polling_interval
while_running(m, is_running, ret) ==
    IF ~is_running THEN [m EXCEPT !.pc = "ended"]
    ELSE IF ret.raised # "none"
    THEN [m EXCEPT !.pc = "sleeping", !.prs = <<>>, !.pending = 0, !.log = <<>>,
                   !.polls = @ + 1, !.polled = ret.raised, !.slept = "error_retry_interval"]
    ELSE [m EXCEPT !.pc = IF ret.value = <<>> THEN "sleeping" ELSE "next",
                   !.prs = ret.value, !.pending = Len(ret.value), !.log = <<>>,
                   !.polls = @ + 1, !.polled = "none",
                   !.slept = IF ret.value = <<>> THEN "polling_interval" ELSE @]

\* one evaluation of the loop condition and, when it holds, the poll
Poll ==
    /\ monitor.pc = "check"
    /\ \E answer \in PullAnswers :
          monitor' = while_running(monitor, running,
                                   get_pending_reviews(MonitoredRepositoryList, <<answer>>))
    /\ monitor'.polls <= MaxPolls
    /\ UNCHANGED <<concurrent_reviews, webhook_secret, running, in_progress, stats, completed,
                   status_out, webhook_out>>
    /\ UNCHANGED <<scanVars, reviewVars, result_kwargs>>
    /\ UNCHANGED exceptAgent

\* for pr in prs: the loop takes the next PR and awaits its context
BeginPr ==
    /\ monitor.pc = "next"
    /\ monitor' = [monitor EXCEPT !.pc = "processing"]
    /\ in_progress' = in_progress + 1
    /\ UNCHANGED <<concurrent_reviews, webhook_secret, running, stats, completed,
                   status_out, webhook_out>>
    /\ UNCHANGED <<scanVars, reviewVars, result_kwargs>>
    /\ UNCHANGED exceptAgent

\* the try block with the review posted whatever happened before
process_pr_posting_anyway(statuses, fs, mcp_status, mcp_body, post_status) ==
    Local(get_pr_context(statuses, fs), LAMBDA ctx :
        [context |-> ctx.raised, review |-> "not called",
         post |-> IF post_status = HttpOk THEN "none" ELSE "Exception", issues |-> 0])

\* the try block for one PR: get_pr_context, review_pr, post_review, each
\* called only when the one before returned; the record says how each call
\* ended and how many issues the posted review had
process_pr(statuses, fs, mcp_status, mcp_body, post_status) ==
    Local(get_pr_context(statuses, fs), LAMBDA ctx :
        IF ctx.raised # "none"
        THEN [context |-> ctx.raised, review |-> "not called", post |-> "not called",
              issues |-> 0]
        ELSE Local(review_pr(ctx.value, mcp_status, mcp_body), LAMBDA review_result :
            IF review_result.raised # "none"
            THEN [context |-> "none", review |-> review_result.raised, post |-> "not called",
                  issues |-> 0]
            ELSE Local(post_review(review_result.value, post_status), LAMBDA posted :
                [context |-> "none", review |-> "none", post |-> posted.raised,
                 issues |-> IF posted.raised = "none" THEN Len(review_result.value.issues)
                            ELSE 0])))

\* did a call of the try block raise
PrRaised(record) ==
    \/ record.context # "none"
    \/ record.review \notin {"none", "not called"}
    \/ record.post \notin {"none", "not called"}

\* the for loop with the exception of a PR reaching the outer handler
next_pr_escaping(m, record) ==
    IF PrRaised(record)
    THEN [m EXCEPT !.pending = 0, !.log = Append(@, record), !.pc = "sleeping",
                   !.slept = "error_retry_interval"]
    ELSE [m EXCEPT !.pending = @ - 1, !.log = Append(@, record),
                   !.pc = IF m.pending = 1 THEN "sleeping" ELSE "next",
                   !.slept = IF m.pending = 1 THEN "polling_interval" ELSE @]

\* except Exception inside the for loop: the error is logged and the loop goes
\* on with the next PR; after the last PR the task sleeps for polling_interval
next_pr(m, record) ==
    [m EXCEPT !.pending = @ - 1, !.log = Append(@, record),
              !.pc = IF m.pending = 1 THEN "sleeping" ELSE "next",
              !.slept = IF m.pending = 1 THEN "polling_interval" ELSE @]

\* the try block for the PR ends: the review is posted, or the exception is
\* logged; nothing assigns to self.stats
FinishPr ==
    /\ monitor.pc = "processing"
    /\ \E statuses \in [pr : HttpStatuses, files : HttpStatuses], fs \in SeqsUpTo(FileEntries, 1),
          mcp_status \in HttpStatuses, mcp_body \in McpBodies, post_status \in HttpStatuses :
       \E record \in {process_pr(statuses, fs, mcp_status, mcp_body, post_status)} :
          /\ completed' = IF record.post = "none"
                          THEN [prs_reviewed |-> completed.prs_reviewed + 1,
                                issues_found |-> completed.issues_found + record.issues]
                          ELSE completed
          /\ monitor' = next_pr(monitor, record)
    /\ in_progress' = in_progress - 1
    /\ UNCHANGED <<concurrent_reviews, webhook_secret, running, stats, status_out, webhook_out>>
    /\ UNCHANGED <<scanVars, reviewVars, result_kwargs>>
    /\ UNCHANGED exceptAgent

\* asyncio.sleep(...) returns
Wake ==
    /\ monitor.pc = "sleeping"
    /\ monitor' = [monitor EXCEPT !.pc = "check"]
    /\ UNCHANGED <<concurrent_reviews, webhook_secret, running, in_progress, stats, completed,
                   status_out, webhook_out>>
    /\ UNCHANGED <<scanVars, reviewVars, result_kwargs>>
    /\ UNCHANGED exceptAgent

\* GET /status
GetStatus ==
    /\ status_out' = [called |-> TRUE, running |-> running, completed |-> completed,
                      ret |-> get_status(running, stats)]
    /\ UNCHANGED <<concurrent_reviews, webhook_secret, running, monitor, in_progress, stats,
                   completed, webhook_out>>
    /\ UNCHANGED <<scanVars, reviewVars, result_kwargs>>
    /\ UNCHANGED exceptAgent

\* POST /webhook
GithubWebhook ==
    /\ \E signature \in Signatures, body \in Bodies, event_type \in EventTypes :
          \E response \in {github_webhook(webhook_secret, signature, body, event_type)} :
             webhook_out' = [status |-> response.status, detail |-> response.detail,
                             parsed |-> response.parsed, agent_called |-> response.agent_called,
                             signature |-> signature, body |-> body, event_type |-> event_type]
    /\ UNCHANGED <<concurrent_reviews, webhook_secret, running, monitor, in_progress, stats,
                   completed, status_out>>
    /\ UNCHANGED <<scanVars, reviewVars, result_kwargs>>
    /\ UNCHANGED exceptAgent

NextAgent ==
    \/ Start
    \/ Stop
    \/ Poll
    \/ BeginPr
    \/ FinishPr
    \/ Wake
    \/ GetStatus

SpecAgent == InitAgent /\ [][NextAgent]_vars

InitWebhook ==
    /\ file_path = <<>>
    /\ content = <<>>
    /\ rule = None
    /\ coding_standards = DefaultStandards
    /\ out = NotCalled
    /\ NoReview
    /\ result_kwargs = NoKwargs
    /\ NoPending
    /\ NoLoops
    /\ NoRerun
    /\ NoContext
    /\ NoConfig
    /\ NoSeverity
    /\ concurrent_reviews = DefaultConcurrentReviews
    /\ webhook_secret \in [integrations : Secrets, env : Secrets]
    /\ AgentConstructed

NextWebhook == GithubWebhook

SpecWebhook == InitWebhook /\ [][NextWebhook]_vars

\* C18: at every moment the number of PR reviews in progress, started by the
\* polling loop or by webhook events, is at most the configured ceiling
\* concurrent_reviews.
C18_ReviewsWithinCeiling == in_progress <= concurrent_reviews

\* what bounds the reviews in progress: the loop handles one PR at a time, and
\* a webhook event starts none
OneReviewAtATime == in_progress <= 1 /\ (in_progress = 1 <=> monitor.pc = "processing")


\* C19: the agent keeps an accumulating statistics counter: prs_reviewed is the
\* number of reviews completed so far and issues_found the number of issues in
\* them, and get_status returns the two together with the running flag.
C19_StatusReportsCounters ==
    /\ stats.value = completed
    /\ status_out.called =>
          /\ status_out.ret.raised = "none"
          /\ status_out.ret.value = [running      |-> status_out.running,
                                     prs_reviewed |-> status_out.completed.prs_reviewed,
                                     issues_found |-> status_out.completed.issues_found]

\* what holds of the counter: nothing ever assigns to it
StatsNeverChange == stats = [type |-> "dict", value |-> [prs_reviewed |-> 0, issues_found |-> 0]]

\* a request has been answered while a secret is configured, in either field
SecretConfigured ==
    /\ webhook_out.status # 0
    /\ webhook_secret.integrations # None \/ webhook_secret.env # None

ConfiguredSecret ==
    IF webhook_secret.integrations # None THEN webhook_secret.integrations ELSE webhook_secret.env

\* C20: with a webhook secret configured, a request reaches
\* agent.handle_github_event only when X-Hub-Signature-256 is "sha256=" plus the
\* HMAC-SHA256 of the raw body under the secret; a request without the header
\* is answered 400 and one with a wrong signature 401, before the payload is
\* parsed and without the agent being invoked.
C20_WebhookAuthenticated ==
    SecretConfigured =>
        /\ webhook_out.agent_called =>
              webhook_out.signature = ExpectedSignature(ConfiguredSecret, webhook_out.body)
        /\ webhook_out.signature.kind \in {"absent", "empty"} =>
              webhook_out.status = 400 /\ ~webhook_out.parsed /\ ~webhook_out.agent_called
        /\ (/\ webhook_out.signature.kind \notin {"absent", "empty"}
            /\ webhook_out.signature # ExpectedSignature(ConfiguredSecret, webhook_out.body)) =>
              webhook_out.status = 401 /\ ~webhook_out.parsed /\ ~webhook_out.agent_called

\* the part of C20 the handler meets, for a secret set in
\* integrations.github.webhook_secret: no request without the valid signature
\* is parsed or reaches the agent
IntegrationsSecretGuards ==
    (webhook_out.status # 0 /\ webhook_secret.integrations # None) =>
        /\ (webhook_out.parsed \/ webhook_out.agent_called) =>
              webhook_out.signature = ExpectedSignature(webhook_secret.integrations, webhook_out.body)
        /\ webhook_out.signature.kind \in {"absent", "empty"} => webhook_out.status = 400
        /\ (/\ webhook_out.signature.kind \in {"sha256", "bare"}
            /\ webhook_out.signature # ExpectedSignature(webhook_secret.integrations, webhook_out.body)) =>
              webhook_out.status = 401


\* ---------------------------------------------------------------------------
\* C21: a review whose collaborators all returned
\* ---------------------------------------------------------------------------

\* C21: whenever the remote analysis and all three analyzers return without
\* raising, review_pr returns a ReviewResult and does not raise: constructing
\* the result with the summary of _generate_summary and review_time None
\* succeeds.
C21_ReviewReturnsResult ==
    (/\ pc = "done"
     /\ mcp.raised = "none"
     /\ \A a \in Analyzers : tasks[a].state = "done" /\ tasks[a].ret.raised = "none") =>
        /\ review_out.raised = "none"
        /\ review_out.value = result_kwargs


\* ---------------------------------------------------------------------------
\* MCPClient.get_pending_reviews
\* ---------------------------------------------------------------------------

MaxRepositories == 2

Repositories == {"owner/repo", "owner/other"}

InitPending ==
    /\ file_path = <<>>
    /\ content = <<>>
    /\ rule = None
    /\ coding_standards = DefaultStandards
    /\ out = NotCalled
    /\ NoReview
    /\ result_kwargs = NoKwargs
    /\ NoRerun
    /\ NoContext
    /\ NoConfig
    /\ NoSeverity
    /\ NoAgent
    /\ NoLoops
    /\ \E repositories \in SeqsUpTo(Repositories, MaxRepositories) :
       \E answers \in [1..Len(repositories) -> PullAnswers] :
          pending_out = [called |-> FALSE, repositories |-> repositories, answers |-> answers,
                         ret |-> Running]

GetPendingReviews ==
    /\ ~pending_out.called
    /\ pending_out' = [pending_out EXCEPT
                          !.called = TRUE,
                          !.ret = get_pending_reviews(pending_out.repositories, pending_out.answers)]
    /\ UNCHANGED <<scanVars, reviewVars, result_kwargs>>
    /\ UNCHANGED exceptPending

NextPending == GetPendingReviews

SpecPending == InitPending /\ [][NextPending]_vars

\* the requests of the last call that were answered 200
Reachable == {i \in 1..Len(pending_out.answers) : pending_out.answers[i].status = HttpOk}

\* the requests of the last call that failed other than by 404
Failed ==
    {i \in 1..Len(pending_out.answers) : pending_out.answers[i].status \notin {HttpOk, HttpNotFound}}

\* the returned entries that came from the i-th request
RECURSIVE OpenPrsUpTo(_)
OpenPrsUpTo(i) ==
    IF i = 0 THEN <<>>
    ELSE OpenPrsUpTo(i - 1) \o
         (IF i \in Reachable
          THEN [k \in 1..Len(pending_out.answers[i].pulls) |->
                   [number |-> pending_out.answers[i].pulls[k],
                    repository |-> pending_out.repositories[i]]]
          ELSE <<>>)

\* C29: get_pending_reviews skips a repository that answers 404 and goes on;
\* any other non-200 answer raises and no PR of any repository is returned; on
\* success the list holds the open PRs of the reachable repositories in the
\* order of the repositories argument.
C29_PendingReviewsOfReachable ==
    pending_out.called =>
        IF Failed # {}
        THEN pending_out.ret.raised = "Exception" /\ pending_out.ret.value = <<>>
        ELSE /\ pending_out.ret.raised = "none"
             /\ pending_out.ret.value = OpenPrsUpTo(Len(pending_out.repositories))

\* a 404 from the first repository, PRs from the second
C29_Witness ==
    /\ pending_out.called
    /\ Len(pending_out.repositories) = 2
    /\ pending_out.answers[1].status = HttpNotFound
    /\ pending_out.answers[2].status = HttpOk
    /\ pending_out.ret.raised = "none"
    /\ Len(pending_out.ret.value) = 2
    /\ \A k \in 1..2 : pending_out.ret.value[k].repository = pending_out.repositories[2]


\* ---------------------------------------------------------------------------
\* C22, C23: the PRs of one polling cycle
\* ---------------------------------------------------------------------------

\* C22: in the polling loop post_review is invoked for a PR only after
\* get_pr_context and review_pr for that PR both returned in the same
\* iteration, at most once per PR of the cycle; a PR whose context fetch or
\* review raised gets no review posted in that cycle.
C22_PostOnlyAfterContextAndReview ==
    /\ Len(monitor.log) <= Len(monitor.prs)
    /\ \A k \in 1..Len(monitor.log) :
          /\ monitor.log[k].post # "not called" =>
                monitor.log[k].context = "none" /\ monitor.log[k].review = "none"
          /\ (monitor.log[k].context # "none" \/ monitor.log[k].review # "none") =>
                monitor.log[k].post = "not called"

\* a cycle of two PRs whose context fetches raised, one at the API and one at
\* the construction of the PRContext, and nothing was posted
C22_Witness ==
    /\ Len(monitor.prs) = 2
    /\ Len(monitor.log) = 2
    /\ monitor.log[1].context = "Exception"
    /\ monitor.log[2].context = "ValidationError"
    /\ \A k \in 1..2 : monitor.log[k].post = "not called"

\* the loop never gets as far as review_pr: every context fetch raises
ContextFetchAlwaysRaises ==
    \A k \in 1..Len(monitor.log) : monitor.log[k].context # "none"


\* C23: in one polling cycle an exception while fetching the context of,
\* reviewing or posting the review for one PR is caught and does not stop the
\* cycle: every later PR of the list get_pending_reviews returned is still
\* processed in that cycle.
C23_CycleSurvivesPrFailure ==
    /\ monitor.pc \in {"next", "processing"} =>
          Len(monitor.log) + monitor.pending = Len(monitor.prs) /\ monitor.pending > 0
    /\ monitor.pc \in {"sleeping", "check", "ended"} =>
          /\ Len(monitor.log) = Len(monitor.prs)
          /\ monitor.polled = "none" /\ monitor.polls > 0 => monitor.slept = "polling_interval"

\* the first PR of a cycle of two failed, and the second was processed before
\* the task went to sleep
C23_Witness ==
    /\ monitor.pc = "sleeping"
    /\ Len(monitor.prs) = 2
    /\ Len(monitor.log) = 2
    /\ monitor.log[1].context # "none"
    /\ monitor.slept = "polling_interval"


\* ---------------------------------------------------------------------------
\* C24, C25: the life of the monitoring task
\* ---------------------------------------------------------------------------

\* the event loop resumes the task whenever its await can complete: a sleep
\* ends, an HTTP call returns or raises
SpecAgentFair ==
    /\ SpecAgent
    /\ WF_vars(Poll)
    /\ WF_vars(BeginPr)
    /\ WF_vars(FinishPr)
    /\ WF_vars(Wake)

\* C24: while the agent is running the monitoring loop never ends because of
\* an exception: after a poll that raised it sleeps error_retry_interval, not
\* polling_interval, and polls again; as long as running stays true a later
\* poll eventually happens (for every poll below MaxPolls).
C24_LoopSurvivesExceptions ==
    /\ [](monitor.pc = "ended" => ~running)
    /\ [](monitor.pc = "sleeping" =>
             (monitor.slept = "error_retry_interval" <=> monitor.polled # "none"))
    /\ \A k \in 0..(MaxPolls - 1) :
          (running /\ monitor.polls = k) ~> (monitor.polls > k \/ ~running)

\* a poll raised, the task slept error_retry_interval and is about to poll again
C24_Witness ==
    /\ running
    /\ monitor.pc = "check"
    /\ monitor.polls = 1
    /\ monitor.polled = "Exception"
    /\ monitor.slept = "error_retry_interval"


\* C25: after stop() (start() is not called again) the monitoring loop begins
\* no new polling cycle and eventually terminates; the PRs of the cycle in
\* progress when stop() was called are the only ones that may still be
\* reviewed.
C25_StopEndsLoop ==
    /\ [][~running => monitor'.polls = monitor.polls /\ monitor'.prs = monitor.prs]_vars
    /\ (~running /\ monitor.pc # "unstarted") ~> (monitor.pc = "ended")
    /\ [](monitor.pc = "ended" => [](monitor.pc = "ended"))

\* stop() was called while the first of two PRs of a cycle was being processed
C25_Witness ==
    /\ ~running
    /\ monitor.pc = "processing"
    /\ Len(monitor.prs) = 2
    /\ monitor.log = <<>>


\* ---------------------------------------------------------------------------
\* C26: start() and stop() in any order
\* ---------------------------------------------------------------------------

MaxLoops == 2

InitLoops ==
    /\ file_path = <<>>
    /\ content = <<>>
    /\ rule = None
    /\ coding_standards = DefaultStandards
    /\ out = NotCalled
    /\ NoReview
    /\ result_kwargs = NoKwargs
    /\ NoRerun
    /\ NoContext
    /\ NoConfig
    /\ NoSeverity
    /\ NoAgent
    /\ NoPending
    /\ NoLoops

\* agent.start(): self.running = True; asyncio.create_task(self._monitor_prs())
StartTask ==
    /\ Len(loops) < MaxLoops
    /\ running' = TRUE
    /\ loops' = Append(loops, [pc |-> "check", prs |-> <<>>])
    /\ UNCHANGED <<concurrent_reviews, webhook_secret, monitor, in_progress, stats, completed,
                   status_out, webhook_out>>
    /\ UNCHANGED <<scanVars, reviewVars, result_kwargs>>
    /\ UNCHANGED exceptLoops

\* while self.running of one task: it ends, or it polls and has the PRs to go
\* through, or sleeps when the poll raised or returned nothing
task_check(is_running, ret) ==
    IF ~is_running THEN [pc |-> "ended", prs |-> <<>>]
    ELSE IF ret.raised # "none" \/ ret.value = <<>> THEN [pc |-> "sleeping", prs |-> <<>>]
    ELSE [pc |-> "next", prs |-> ret.value]

TaskCheck ==
    /\ \E i \in DOMAIN loops :
          /\ loops[i].pc = "check"
          /\ \E answer \in PullAnswers :
                loops' = [loops EXCEPT ![i] =
                             task_check(running,
                                        get_pending_reviews(MonitoredRepositoryList, <<answer>>))]
    /\ UNCHANGED agentVars
    /\ UNCHANGED <<scanVars, reviewVars, result_kwargs>>
    /\ UNCHANGED exceptLoops

\* for pr in prs of one task: the try block for the first PR left begins
TaskBeginPr ==
    /\ \E i \in DOMAIN loops :
          /\ loops[i].pc = "next"
          /\ loops' = [loops EXCEPT ![i].pc = "processing"]
    /\ UNCHANGED agentVars
    /\ UNCHANGED <<scanVars, reviewVars, result_kwargs>>
    /\ UNCHANGED exceptLoops

\* the try block of one task ends, by posting or by the logged exception
TaskFinishPr ==
    /\ \E i \in DOMAIN loops :
          /\ loops[i].pc = "processing"
          /\ loops' = [loops EXCEPT ![i] =
                          [pc |-> IF Len(loops[i].prs) = 1 THEN "sleeping" ELSE "next",
                           prs |-> Tail(loops[i].prs)]]
    /\ UNCHANGED agentVars
    /\ UNCHANGED <<scanVars, reviewVars, result_kwargs>>
    /\ UNCHANGED exceptLoops

\* asyncio.sleep(...) of one task returns
TaskWake ==
    /\ \E i \in DOMAIN loops :
          /\ loops[i].pc = "sleeping"
          /\ loops' = [loops EXCEPT ![i].pc = "check"]
    /\ UNCHANGED agentVars
    /\ UNCHANGED <<scanVars, reviewVars, result_kwargs>>
    /\ UNCHANGED exceptLoops

NextLoops ==
    \/ StartTask
    \/ Stop
    \/ TaskCheck
    \/ TaskBeginPr
    \/ TaskFinishPr
    \/ TaskWake

SpecLoops == InitLoops /\ [][NextLoops]_vars

\* the tasks that have not ended
ActiveLoops == {i \in DOMAIN loops : loops[i].pc # "ended"}

\* C26: under any sequence of start() and stop() calls at most one monitoring
\* loop is active at a time, so no PR is reviewed by two loops concurrently.
C26_OneLoopAtATime ==
    /\ Cardinality(ActiveLoops) <= 1
    /\ \A i, j \in DOMAIN loops :
          i # j /\ loops[i].pc = "processing" /\ loops[j].pc = "processing" =>
             Head(loops[i].prs) # Head(loops[j].prs)

\* every start() adds a task, and stop() ends a task only at the task's next
\* evaluation of self.running
TasksEndOnlyStopped ==
    [][\A i \in DOMAIN loops :
          loops[i].pc # "ended" /\ loops'[i].pc = "ended" => ~running]_vars

\* two tasks in the try block for the same PR
SamePrInTwoLoops ==
    /\ Len(loops) = 2
    /\ loops[1].pc = "processing"
    /\ loops[2].pc = "processing"
    /\ Head(loops[1].prs) = Head(loops[2].prs)


\* ---------------------------------------------------------------------------
\* C27: which events the webhook handler hands to the agent
\* ---------------------------------------------------------------------------

\* the last request passed the signature stage of the handler
Authenticated ==
    /\ webhook_out.status # 0
    /\ \/ webhook_secret.integrations = None
       \/ webhook_out.signature =
             ExpectedSignature(webhook_secret.integrations, webhook_out.body)

\* C27: the webhook handler hands an event to the agent only if its event type
\* is one of the configured webhook events and its repository is in the
\* monitored repository list; every other authenticated event, for any payload
\* shape, is answered with status 'ignored' and never reaches the agent.
C27_OnlyMonitoredEventsReachAgent ==
    Authenticated =>
        IF /\ webhook_out.event_type \in WebhookEvents
           /\ webhook_out.body.repository \in MonitoredRepositories
        THEN TRUE
        ELSE /\ ~webhook_out.agent_called
             /\ webhook_out.status = 200
             /\ webhook_out.detail = "ignored"

\* what the filter does give: an event of a type that is not configured, or
\* of a repository named in the payload and not monitored, is answered
\* 'ignored' without the agent
NamedUnmonitoredIgnored ==
    (/\ Authenticated
     /\ webhook_out.body.kind = "object"
     /\ \/ webhook_out.event_type \notin WebhookEvents
        \/ webhook_out.body.repository \notin MonitoredRepositories \cup {""}) =>
        /\ ~webhook_out.agent_called
        /\ webhook_out.status = 200
        /\ webhook_out.detail = "ignored"

\* a signed pull_request event without the key repository went on to the agent
UnnamedRepositoryReachesAgent ==
    /\ webhook_secret.integrations = "s3cret"
    /\ Authenticated
    /\ webhook_out.event_type = "pull_request"
    /\ webhook_out.body.id = "norepo"
    /\ webhook_out.agent_called


\* ---------------------------------------------------------------------------
\* C28: what the snippet of a hardcoded-secret issue shows
\* ---------------------------------------------------------------------------

\* t in s
Occurs(t, s) == \E at \in 1..(Len(s) - Len(t) + 1) : StartsAt(s, t, at)

\* C28: no issue emitted by the hardcoded-secret scan discloses the secret: for
\* every match the captured value (capture group 1) does not occur as a
\* substring of the emitted code_snippet, and the snippet has the same length
\* as the matched text.
C28_SnippetHidesSecret ==
    out.op = "_check_hardcoded_secrets" =>
        \A ms \in {SecretMatchesFrom(content, 1)} :
            /\ out.ret.raised = "none"
            /\ Len(out.ret.value) = Len(ms)
            /\ \A k \in 1..Len(ms) :
                  /\ ~Occurs(group1(content, ms[k]), out.ret.value[k].code_snippet)
                  /\ Len(out.ret.value[k].code_snippet) = Len(group0(content, ms[k]))

\* what the replacement does give: the snippet has the length of the matched
\* text, and a captured value without an asterisk does not occur in it
SnippetHidesUnstarredSecret ==
    out.op = "_check_hardcoded_secrets" =>
        \A ms \in {SecretMatchesFrom(content, 1)} :
            /\ out.ret.raised = "none"
            /\ Len(out.ret.value) = Len(ms)
            /\ \A k \in 1..Len(ms) :
                  /\ Len(out.ret.value[k].code_snippet) = Len(group0(content, ms[k]))
                  /\ (\A i \in 1..Len(group1(content, ms[k])) : group1(content, ms[k])[i] # "*") =>
                        ~Occurs(group1(content, ms[k]), out.ret.value[k].code_snippet)

\* the scan of password*23456782345678'*2345678' emitted the snippet
\* password********2345678'********'
StarredSecretShown ==
    /\ out.op = "_check_hardcoded_secrets"
    /\ content = LinePasswordStar
    /\ Len(out.ret.value) = 1
    /\ out.ret.value[1].code_snippet =
          <<"p","a","s","s","w","o","r","d">> \o Stars(8)
             \o <<"2","3","4","5","6","7","8","'">> \o Stars(8) \o <<"'">>

====
